---- MODULE Spec2Model ----
(***************************************************************************)
(* Trade normalization, pairwise snapshot diff and position-lifecycle      *)
(* replay of sensibull/app.py.                                             *)
(*                                                                         *)
(* Numbers.  Quantities and the price / P&L fields of a snapshot are       *)
(* integers here.  Python's true division "/" is modelled by exact         *)
(* rational arithmetic: a computed price or P&L is a fraction [n, d] in    *)
(* lowest terms with d > 0, so a computed value is never rounded to an     *)
(* integer.                                                                *)
(***************************************************************************)
EXTENDS Integers, Sequences, FiniteSets, TLC

VARIABLES
    pc,                \* which call is in progress / finished
    positions_data,    \* normalize_trades_for_diff: its argument
    norm,              \* normalize_trades_for_diff: its outcome
    request,           \* replay: the endpoint called and its query arguments
    snapshots,         \* replay: the stored snapshots the loop has read so far
    state,             \* replay: the per-key state dict
    underlying_events, \* api_profile_all_underlyings: events per underlying
    events,            \* api_profile_symbol_lifecycle: the events list
    db,                \* the tables: snapshots, position_changes, latest_snapshots
    query,             \* the call that reads the tables and its arguments
    metrics,           \* get_daily_pnl_metrics: the returned dict
    cursor,            \* api_diff, daily_log: rows of all_prev_snapshots read so far
    prev_map,          \* calculate_diff: the prev_map dict (mutated in place)
    curr_map,          \* calculate_diff: the curr_map dict (mutated in place)
    historical_trades, \* calculate_diff: the historical_trades dict
    call_prev,         \* prev_map as it was when calculate_diff was called
    call_curr,         \* curr_map as it was when calculate_diff was called
    diff,              \* calculate_diff: the returned dict
    helper,            \* the results of _compute_implied_fill and _compute_exit_metrics
    now,               \* scraper: the clock, now_ist()
    current_data,      \* run_scraper: the payload fetched in the latest run
    last_snapshot      \* run_scraper: the stored row the latest run compared with

normVars == <<positions_data, norm>>
diffVars == <<prev_map, curr_map, historical_trades, call_prev, call_curr, diff>>
replayVars == <<request, snapshots, state, underlying_events, events>>
dbVars == <<db, query, metrics, cursor>>
helperVars == <<helper>>
scraperVars == <<now, current_data, last_snapshot>>
vars == <<pc, normVars, diffVars, replayVars, dbVars, helperVars, scraperVars>>

-----------------------------------------------------------------------------
(* Bounds *)

MaxQty == 2
MaxPrice == 3
MaxGroups == 2
MaxTrades == 3
MaxAliasVal == 2
MaxSnaps == 4
MaxRows == 3
MaxDay == 3

-----------------------------------------------------------------------------
(* Exact arithmetic standing for Python's float arithmetic *)

Abs(x) == IF x < 0 THEN -x ELSE x

RECURSIVE Gcd(_, _)
Gcd(a, b) == IF b = 0 THEN a ELSE Gcd(b, a % b)

\* the fraction n/d (d # 0) in lowest terms with a positive denominator
Frac(n, d) ==
    LET g == Gcd(Abs(n), Abs(d))
        s == IF d < 0 THEN -1 ELSE 1
    IN  [n |-> (s * n) \div g, d |-> (s * d) \div g]

R(i) == [n |-> i, d |-> 1]
RZero == R(0)
RAdd_AsSub(x, y) == Frac(x.n * y.d - y.n * x.d, x.d * y.d)
RAdd(x, y) == Frac(x.n * y.d + y.n * x.d, x.d * y.d)
RSub(x, y) == Frac(x.n * y.d - y.n * x.d, x.d * y.d)
RMul(x, y) == Frac(x.n * y.n, x.d * y.d)
RDiv(x, y) == Frac(x.n * y.d, x.d * y.n)
RAbs(x) == [n |-> Abs(x.n), d |-> x.d]
RLt(x, y) == x.n * y.d < y.n * x.d
RTruthy(x) == x.n # 0

-----------------------------------------------------------------------------
(* Keys and normalized trades *)

\* Python's None as the value of a normalized trading_symbol / product
PyNone == "<None>"

\* str(x) inside the f-string of the key: None prints as "None"
StrOf(x) == IF x = PyNone THEN "None" ELSE x

\* f"{trading_symbol}|{product}"; symbols and products hold no "|", so the
\* key is kept as the pair of the two printed parts
KeyOf(sym, prod) == <<StrOf(sym), StrOf(prod)>>

\* dict helpers: a dict is a function from field names to values
Get(d, k, default) == IF k \in DOMAIN d THEN d[k] ELSE default
Put(d, k, v) == [x \in DOMAIN d \cup {k} |-> IF x = k THEN v ELSE d[x]]
MapPut(m, k, v) == [x \in DOMAIN m \cup {k} |-> IF x = k THEN v ELSE m[x]]
EmptyMap == [x \in {} |-> 0]
\* the union of two dicts with disjoint keys
Merge(m1, m2) == [x \in DOMAIN m1 \cup DOMAIN m2 |->
                    IF x \in DOMAIN m1 THEN m1[x] ELSE m2[x]]

\* the dict that normalize_trades_for_diff stores for a key
Trade(sym, prod, qty, avg_p, last_p, unbooked, booked) ==
    [trading_symbol |-> sym, product |-> prod, quantity |-> qty,
     average_price |-> avg_p, last_price |-> last_p,
     unbooked_pnl |-> unbooked, booked_profit_loss |-> booked]

-----------------------------------------------------------------------------
(* normalize_trades_for_diff *)

\* Values of a decoded JSON document.  A raw dict is a function from the
\* field names it holds to tagged values; a field it lacks is outside its
\* domain, and dict.get then yields None.
Null == [null |-> TRUE]
Num(i) == [num |-> i]
Str(x) == [str |-> x]
List(x) == [list |-> x]
IsNull(v) == "null" \in DOMAIN v
RawGet(t, f) == IF f \in DOMAIN t THEN t[f] ELSE Null

\* Python truthiness of a raw value: None, 0 and "" are falsy
Truthy(v) == \/ ("num" \in DOMAIN v /\ v.num # 0)
             \/ ("str" \in DOMAIN v /\ v.str # "")

\* the alias lists, in the order of the "or" chains
QtyAliases_Typo == <<"quantity", "qty", "netqty", "net_quantity">>
QtyAliases == <<"quantity", "qty", "net_qty", "net_quantity">>
AvgAliases == <<"average_price", "avg_price", "averageprice", "avg">>
LastAliases == <<"last_price", "lastprice", "ltp", "last">>
UnbookedAliases == <<"unbooked_pnl", "unbookedpnl", "unbooked">>
BookedAliases == <<"booked_profit_loss", "bookedprofitloss", "booked_pnl", "bookedpnl">>

\* t.get(a1) or t.get(a2) or ... or 0; the raw numbers of the feed are
\* numeric, so a truthy value is a number
RECURSIVE OrChain(_, _)
OrChain(t, aliases) ==
    IF aliases = <<>> THEN 0
    ELSE IF Truthy(RawGet(t, Head(aliases))) THEN RawGet(t, Head(aliases)).num
    ELSE OrChain(t, Tail(aliases))

\* t.get('trading_symbol'), t.get('product')
NameOf(t, f) == IF IsNull(RawGet(t, f)) THEN PyNone ELSE RawGet(t, f).str

\* the merge of a later occurrence of a key into the stored trade
MergeTrade_AllNonZero(old, qty, avg_p, last_p, unbooked, booked) ==
    [old EXCEPT !.quantity = IF qty # 0 THEN qty ELSE @,
                !.average_price = IF avg_p # 0 THEN avg_p ELSE @,
                !.last_price = IF last_p # 0 THEN last_p ELSE @,
                !.unbooked_pnl = IF unbooked # 0 THEN unbooked ELSE @,
                !.booked_profit_loss = IF booked # 0 THEN booked ELSE @]

MergeTrade(old, qty, avg_p, last_p, unbooked, booked) ==
    [old EXCEPT !.quantity = IF qty # 0 THEN qty ELSE @,
                !.average_price = IF avg_p # 0 THEN avg_p ELSE @,
                !.last_price = IF last_p # 0 THEN last_p ELSE @,
                !.unbooked_pnl = unbooked,
                !.booked_profit_loss = booked]

\* the body of "for t in p.get('trades', [])"
NormalizeTrade(trades_map, t) ==
    LET sym == NameOf(t, "trading_symbol")
        prod == NameOf(t, "product")
        key == KeyOf(sym, prod)
        qty == OrChain(t, QtyAliases)
        avg_p == OrChain(t, AvgAliases)
        last_p == OrChain(t, LastAliases)
        unbooked == OrChain(t, UnbookedAliases)
        booked == OrChain(t, BookedAliases)
    IN  IF key \notin DOMAIN trades_map
        THEN MapPut(trades_map, key, Trade(sym, prod, qty, avg_p, last_p, unbooked, booked))
        ELSE MapPut(trades_map, key,
                    MergeTrade(trades_map[key], qty, avg_p, last_p, unbooked, booked))

RECURSIVE NormalizeTrades(_, _)
NormalizeTrades(trades_map, ts) ==
    IF ts = <<>> THEN trades_map
    ELSE NormalizeTrades(NormalizeTrade(trades_map, Head(ts)), Tail(ts))

\* the outer loop "for p in positions_data": p.get('trades', []) is [] for a
\* group without the field, and None for a group whose field is null, which
\* the inner for statement cannot iterate (TypeError)
RECURSIVE NormalizeGroups(_, _)
NormalizeGroups(trades_map, groups) ==
    IF groups = <<>> THEN [raised |-> FALSE, trades_map |-> trades_map]
    ELSE LET p == Head(groups)
         IN  IF "trades" \notin DOMAIN p
             THEN NormalizeGroups(trades_map, Tail(groups))
             ELSE IF IsNull(p.trades)
             THEN [raised |-> TRUE, trades_map |-> trades_map]
             ELSE NormalizeGroups(NormalizeTrades(trades_map, p.trades.list),
                                  Tail(groups))

\* normalize_trades_for_diff(positions_data): the returned map, or raised
normalize_trades_for_diff(data) == NormalizeGroups(EmptyMap, data)

-----------------------------------------------------------------------------
(* calculate_diff *)

\* x or y, for numbers
Or0(x, y) == IF x # 0 THEN x ELSE y

\* the history lookup shared by the removed and the modified branch:
\* <<original_qty, original_avg_price, original_last_price>>
BackfillFromHistory_Whole(p, key, hist_map) ==
    IF (p.quantity = 0 \/ p.average_price = 0) /\ key \in DOMAIN hist_map
    THEN <<hist_map[key].quantity, hist_map[key].average_price, hist_map[key].last_price>>
    ELSE <<p.quantity, p.average_price, p.last_price>>

BackfillFromHistory(p, key, hist_map) ==
    LET oq == p.quantity
        oa == p.average_price
        ol == p.last_price
        use == (oq = 0 \/ oa = 0) /\ DOMAIN hist_map # {} /\ key \in DOMAIN hist_map
        hist == hist_map[key]
    IN  IF use
        THEN <<IF oq = 0 THEN hist.quantity ELSE oq,
               IF oa = 0 THEN hist.average_price ELSE oa,
               IF ol = 0 THEN hist.last_price ELSE ol>>
        ELSE <<oq, oa, ol>>

\* the branch "if not p": the entry appended to added (curr_map[key], mutated)
DiffAdded(c) ==
    Put(Put(Put(Put(c, "change_type", "ADDED"), "exit_pnl", RZero),
            "exit_price", RZero), "original_quantity", 0)

\* exit_pnl of a removed leg: the booked P&L, else the price estimate, else 0
RemovedExitPnl_Flipped(booked_pnl, original_qty, avg_price, exit_price) ==
    IF booked_pnl # 0 THEN booked_pnl
    ELSE IF original_qty # 0 /\ avg_price # 0 /\ exit_price # 0
         THEN (avg_price - exit_price) * original_qty
         ELSE 0

RemovedExitPnl(booked_pnl, original_qty, avg_price, exit_price) ==
    IF booked_pnl # 0 THEN booked_pnl
    ELSE IF original_qty # 0 /\ avg_price # 0 /\ exit_price # 0
         THEN (exit_price - avg_price) * original_qty
         ELSE 0

\* the branch "elif not c": the entry appended to removed (prev_map[key], mutated)
DiffRemoved(p, key, curr, hist_map) ==
    LET orig == BackfillFromHistory(p, key, hist_map)
        original_qty == orig[1]
        original_avg_price == orig[2]
        original_last_price == orig[3]
        exit_price == Or0(original_last_price, p.last_price)
        booked0 == p.booked_profit_loss
        booked_pnl == IF booked0 = 0 /\ key \in DOMAIN curr
                      THEN curr[key].booked_profit_loss ELSE booked0
        avg_price == Or0(original_avg_price, p.average_price)
        exit_pnl == RemovedExitPnl(booked_pnl, original_qty, avg_price, exit_price)
        p1 == Put(p, "change_type", "REMOVED")
        p2 == Put(p1, "original_quantity", original_qty)
        p3 == Put(p2, "original_average_price", original_avg_price)
        p4 == Put(p3, "exit_price", R(exit_price))
        p5 == Put(p4, "exit_pnl", R(exit_pnl))
        p6 == Put(p5, "booked_pnl", R(exit_pnl))
    IN  IF original_avg_price # 0 /\ p.average_price = 0
        THEN Put(p6, "average_price", original_avg_price)
        ELSE p6

\* |(a1*q1 - a0*q0) / (q1 - q0)|, or 0 when dq, a0 or a1 is zero
ImpliedPrice_NoAbs(q0, q1, a0, a1) ==
    IF q1 - q0 # 0 /\ a0 # 0 /\ a1 # 0
    THEN Frac(a1 * q1 - a0 * q0, q1 - q0)
    ELSE RZero

ImpliedPrice(q0, q1, a0, a1) ==
    IF q1 - q0 # 0 /\ a0 # 0 /\ a1 # 0
    THEN RAbs(Frac(a1 * q1 - a0 * q0, q1 - q0))
    ELSE RZero

\* is_reducing
IsReducing(q0, q1) == (q0 > 0 /\ q1 < q0) \/ (q0 < 0 /\ q1 > q0)

\* abs(exit_price - entry_price) < 0.01
NearEntry_Never(exit_price, entry_price) == FALSE

NearEntry(exit_price, entry_price) ==
    RLt(RAbs(RSub(exit_price, R(entry_price))), Frac(1, 100))

\* the booked-P&L block of the modified branch:
\* [booked_pnl, exit_pnl, exit_price, implied_fill_price]
ModifiedExit(p, c, original_avg_price, implied0) ==
    LET q0 == p.quantity
        q1 == c.quantity
        broker_booked_pnl == c.booked_profit_loss
        closed_qty == Abs(q0 - q1)
        entry_price == Or0(original_avg_price, p.average_price)
        none == [booked_pnl |-> RZero, exit_pnl |-> RZero, exit_price |-> RZero,
                 implied_fill_price |-> implied0]
    IN  IF ~IsReducing(q0, q1) THEN none
        ELSE IF broker_booked_pnl # 0
        THEN IF closed_qty # 0 /\ entry_price # 0
             THEN LET per == Frac(broker_booked_pnl, closed_qty)
                      exit_price == IF q0 > 0 THEN RAdd(per, R(entry_price))
                                    ELSE RSub(R(entry_price), per)
                  IN  [booked_pnl |-> R(broker_booked_pnl),
                       exit_pnl |-> R(broker_booked_pnl),
                       exit_price |-> exit_price,
                       implied_fill_price |-> exit_price]
             ELSE [booked_pnl |-> R(broker_booked_pnl),
                   exit_pnl |-> R(broker_booked_pnl),
                   exit_price |-> implied0,
                   implied_fill_price |-> implied0]
        ELSE LET ltp == Or0(c.last_price, p.last_price)
                 useLtp == q1 = 0 /\ RTruthy(implied0)
                           /\ NearEntry(implied0, entry_price) /\ ltp > 0
                 exit_price == IF useLtp THEN R(ltp) ELSE implied0
                 booked_pnl == IF q0 > 0
                               THEN RMul(RSub(exit_price, R(entry_price)), R(closed_qty))
                               ELSE RMul(RSub(R(entry_price), exit_price), R(closed_qty))
             IN  IF entry_price # 0 /\ RTruthy(exit_price) /\ closed_qty # 0
                 THEN [booked_pnl |-> booked_pnl, exit_pnl |-> booked_pnl,
                       exit_price |-> exit_price, implied_fill_price |-> exit_price]
                 ELSE [booked_pnl |-> RZero, exit_pnl |-> RZero, exit_price |-> RZero,
                       implied_fill_price |-> exit_price]

\* the branch for a key of both maps whose quantities differ: the entry
\* appended to modified (curr_map[key], mutated)
DiffModified(p, c, key, hist_map) ==
    LET orig == BackfillFromHistory(p, key, hist_map)
        original_qty == orig[1]
        original_avg_price == orig[2]
        q0 == p.quantity
        q1 == c.quantity
        dq == q1 - q0
        a0 == Or0(original_avg_price, p.average_price)
        a1 == c.average_price
        implied0 == ImpliedPrice(q0, q1, a0, a1)
        ex == ModifiedExit(p, c, original_avg_price, implied0)
        c1 == Put(c, "change_type", "MODIFIED")
        c2 == Put(c1, "old_quantity", p.quantity)
        c3 == Put(c2, "quantity_diff", c.quantity - p.quantity)
        c4 == Put(c3, "original_quantity", original_qty)
        c5 == Put(c4, "original_average_price", original_avg_price)
        c6 == Put(c5, "implied_fill_side",
                  IF dq > 0 THEN "BUY" ELSE IF dq < 0 THEN "SELL" ELSE "")
        c7 == Put(c6, "implied_fill_qty", Abs(dq))
        c8 == Put(c7, "implied_fill_price", ex.implied_fill_price)
        c9 == Put(c8, "booked_pnl", ex.booked_pnl)
        c10 == Put(c9, "exit_pnl", ex.exit_pnl)
        c11 == Put(c10, "exit_price", ex.exit_price)
    IN  IF original_avg_price # 0 /\ c.average_price = 0
        THEN Put(c11, "average_price", original_avg_price)
        ELSE c11

\* the test "p['quantity'] != c['quantity']"
QuantityChanged_PriceToo(p, c) ==
    p.quantity # c.quantity \/ p.average_price # c.average_price

QuantityChanged_Geq(p, c) == p.quantity >= c.quantity

QuantityChanged(p, c) == p.quantity # c.quantity

\* one iteration of "for key in all_keys"; st holds both dicts and the lists
DiffKey(st, key, hist_map) ==
    IF key \notin DOMAIN st.prev
    THEN LET e == DiffAdded(st.curr[key])
         IN  [st EXCEPT !.curr = MapPut(st.curr, key, e),
                        !.added = Append(st.added, e)]
    ELSE IF key \notin DOMAIN st.curr
    THEN LET e == DiffRemoved(st.prev[key], key, st.curr, hist_map)
         IN  [st EXCEPT !.prev = MapPut(st.prev, key, e),
                        !.removed = Append(st.removed, e)]
    ELSE IF QuantityChanged(st.prev[key], st.curr[key])
    THEN LET e == DiffModified(st.prev[key], st.curr[key], key, hist_map)
         IN  [st EXCEPT !.curr = MapPut(st.curr, key, e),
                        !.modified = Append(st.modified, e)]
    ELSE st

RECURSIVE DiffLoop(_, _, _)
DiffLoop(st, order, hist_map) ==
    IF order = <<>> THEN st
    ELSE DiffLoop(DiffKey(st, Head(order), hist_map), Tail(order), hist_map)

\* calculate_diff(prev_map, curr_map, historical_trades), iterating the set
\* all_keys in the order `order`; the result carries the two dicts as the
\* call leaves them and the three returned lists
calculate_diff(prev, curr, hist_map, order) ==
    DiffLoop([prev |-> prev, curr |-> curr, added |-> <<>>, removed |-> <<>>,
              modified |-> <<>>], order, hist_map)

\* the orders in which a set can be iterated
Orders(S) == {o \in [1..Cardinality(S) -> S] : \A x \in S : \E i \in DOMAIN o : o[i] = x}

-----------------------------------------------------------------------------
(* Lifecycle replay: the helpers shared by both endpoints *)

\* None, for a trade: "not trade" and "(trade or {})" treat None and the
\* empty dict alike, and no stored trade is empty
NoTrade == EmptyMap
IsTrade(t) == DOMAIN t # {}

\* _best_effort_trade_before(trade, last_good_trade)
BackfillField(out, g, f) ==
    IF Get(out, f, 0) = 0 /\ Get(g, f, 0) # 0 THEN Put(out, f, g[f]) ELSE out

_best_effort_trade_before_QtyOnly(trade, last_good_trade) ==
    IF ~IsTrade(trade) THEN NoTrade
    ELSE IF ~IsTrade(last_good_trade) THEN trade
    ELSE BackfillField(trade, last_good_trade, "quantity")

_best_effort_trade_before(trade, last_good_trade) ==
    IF ~IsTrade(trade) THEN NoTrade
    ELSE IF ~IsTrade(last_good_trade) THEN trade
    ELSE BackfillField(BackfillField(BackfillField(trade, last_good_trade, "quantity"),
                                     last_good_trade, "average_price"),
                       last_good_trade, "last_price")

\* _compute_exit_metrics(before_trade): <<exit_pnl, exit_price>>
_compute_exit_metrics(before_trade) ==
    IF ~IsTrade(before_trade) THEN <<0, 0>>
    ELSE LET qty == Get(before_trade, "quantity", 0)
             avg_price == Get(before_trade, "average_price", 0)
             last_price == Get(before_trade, "last_price", 0)
             booked_pnl == Get(before_trade, "booked_profit_loss", 0)
             exit_price == last_price
         IN  IF booked_pnl # 0 THEN <<booked_pnl, exit_price>>
             ELSE IF qty # 0 /\ avg_price # 0 /\ exit_price # 0
             THEN <<(exit_price - avg_price) * qty, exit_price>>
             ELSE <<0, exit_price>>

\* _compute_implied_fill(prev_trade, curr_trade, original_avg_price):
\* <<side, fill_qty, price>>
_compute_implied_fill_Unguarded(prev_trade, curr_trade, original_avg_price) ==
    LET q0 == Get(prev_trade, "quantity", 0)
        q1 == Get(curr_trade, "quantity", 0)
        dq == q1 - q0
        a0 == Or0(original_avg_price, Get(prev_trade, "average_price", 0))
        a1 == Get(curr_trade, "average_price", 0)
    IN  <<IF dq > 0 THEN "BUY" ELSE IF dq < 0 THEN "SELL" ELSE "",
          Abs(dq),
          IF a0 # 0 /\ a1 # 0
          THEN IF dq # 0 THEN RAbs(Frac(a1 * q1 - a0 * q0, dq)) ELSE R(a1)
          ELSE RZero>>

_compute_implied_fill(prev_trade, curr_trade, original_avg_price) ==
    LET q0 == Get(prev_trade, "quantity", 0)
        q1 == Get(curr_trade, "quantity", 0)
        dq == q1 - q0
        a0 == Or0(original_avg_price, Get(prev_trade, "average_price", 0))
        a1 == Get(curr_trade, "average_price", 0)
    IN  <<IF dq > 0 THEN "BUY" ELSE IF dq < 0 THEN "SELL" ELSE "",
          Abs(dq),
          IF dq # 0 /\ a0 # 0 /\ a1 # 0
          THEN RAbs(Frac(a1 * q1 - a0 * q0, dq)) ELSE RZero>>

\* the trade is "good": non-zero quantity and non-zero average price
IsGood_QtyOnly(t) == IsTrade(t) /\ Get(t, "quantity", 0) # 0

IsGood(t) == IsTrade(t) /\ Get(t, "quantity", 0) # 0 /\ Get(t, "average_price", 0) # 0

\* curr_present
CurrPresent_Listed(curr_trade) == IsTrade(curr_trade)

CurrPresent(curr_trade) == IsTrade(curr_trade) /\ Get(curr_trade, "quantity", 0) # 0

\* the state of a key not seen before
NewState == [present |-> FALSE, last_trade |-> NoTrade, last_good_trade |-> NoTrade]

\* the event type chosen from prev_present, curr_present and the quantities
EventType(prev_present, curr_present, prev_qty, curr_qty) ==
    IF ~prev_present /\ curr_present THEN "ENTERED"
    ELSE IF prev_present /\ ~curr_present THEN "EXITED"
    ELSE IF prev_present /\ curr_present /\ prev_qty # curr_qty THEN "MODIFIED"
    ELSE ""

\* One key of one snapshot, as both endpoints process it: the new state of
\* the key and the events emitted (none or one).  modified_exit tells whether
\* the endpoint computes exit metrics for a reducing MODIFIED.
Transition(st, curr_trade, snap_id, symbol, product, modified_exit) ==
    LET prev_present == st.present
        prev_trade == _best_effort_trade_before(st.last_trade, st.last_good_trade)
        curr_present == CurrPresent(curr_trade)
        good == IF IsGood(curr_trade) THEN curr_trade ELSE st.last_good_trade
        before_qty == Get(prev_trade, "quantity", 0)
        after_qty == Get(curr_trade, "quantity", 0)
        before_avg == Get(prev_trade, "average_price", 0)
        event_type == EventType(prev_present, curr_present, before_qty, after_qty)
        fill == IF event_type = "MODIFIED"
                THEN _compute_implied_fill(prev_trade, curr_trade, before_avg)
                ELSE <<"", 0, RZero>>
        exit == IF event_type = "EXITED"
                   \/ (event_type = "MODIFIED" /\ modified_exit
                       /\ IsReducing(before_qty, after_qty))
                THEN _compute_exit_metrics(prev_trade)
                ELSE <<0, 0>>
        event == [snapshot_id |-> snap_id, timestamp |-> snap_id,
                  type |-> event_type, symbol |-> symbol, product |-> product,
                  before_quantity |-> before_qty, after_quantity |-> after_qty,
                  quantity_diff |-> after_qty - before_qty,
                  before_average_price |-> before_avg,
                  after_average_price |-> Get(curr_trade, "average_price", 0),
                  after_last_price |-> Get(curr_trade, "last_price", 0),
                  after_unbooked_pnl |-> Get(curr_trade, "unbooked_pnl", 0),
                  after_booked_pnl |-> Get(curr_trade, "booked_profit_loss", 0),
                  exit_pnl |-> exit[1], exit_price |-> exit[2],
                  implied_fill_side |-> fill[1], implied_fill_qty |-> fill[2],
                  implied_fill_price |-> fill[3]]
    IN  [st |-> [present |-> curr_present, last_trade |-> curr_trade,
                 last_good_trade |-> good],
         events |-> IF event_type = "" THEN <<>> ELSE <<event>>]

\* str.upper() on the symbols of the model
Upper(x) == IF x = "Nifty24FEB25000PE" THEN "NIFTY24FEB25000PE" ELSE x

\* get_underlying(trading_symbol): the leading run of letters, & and -,
\* upper-cased; None when the symbol is missing or starts otherwise
get_underlying(trading_symbol) ==
    CASE trading_symbol = "NIFTY24FEB25000PE" -> "NIFTY"
      [] trading_symbol = "Nifty24FEB25000PE" -> "NIFTY"
      [] trading_symbol = "BANKNIFTY24FEB48000CE" -> "BANKNIFTY"
      [] OTHER -> PyNone

\* list.sort(key=timestamp, reverse=True): a stable sort, latest first
RECURSIVE SortLatestFirst(_)
SortLatestFirst(evs) ==
    IF evs = <<>> THEN <<>>
    ELSE LET top == CHOOSE t \in {evs[i].timestamp : i \in DOMAIN evs} :
                        \A i \in DOMAIN evs : evs[i].timestamp <= t
         IN  SelectSeq(evs, LAMBDA e : e.timestamp = top)
             \o SortLatestFirst(SelectSeq(evs, LAMBDA e : e.timestamp # top))

-----------------------------------------------------------------------------
(* The variables of a component that a specification does not exercise *)

NoNorm == [raised |-> FALSE, trades_map |-> EmptyMap]
NoDiff == [added |-> <<>>, removed |-> <<>>, modified |-> <<>>]

NormIdle == positions_data = <<>> /\ norm = NoNorm
DiffIdle ==
    /\ prev_map = EmptyMap /\ curr_map = EmptyMap /\ historical_trades = EmptyMap
    /\ call_prev = EmptyMap /\ call_curr = EmptyMap /\ diff = NoDiff

NoRequest == [endpoint |-> "", underlying |-> "", symbol |-> "", product |-> ""]
ReplayIdle ==
    /\ request = NoRequest /\ snapshots = <<>> /\ state = EmptyMap
    /\ underlying_events = EmptyMap /\ events = <<>>

NoDb == [snapshots |-> <<>>, position_changes |-> <<>>, latest_snapshots |-> <<>>]
NoQuery == [endpoint |-> "", date |-> 0, today |-> 0, change_id |-> 0]
NoMetrics == [start_pnl |-> 0, current_pnl |-> 0, todays_pnl |-> 0, booked_pnl |-> 0,
              last_updated |-> Null]
DbIdle == db = NoDb /\ query = NoQuery /\ metrics = NoMetrics /\ cursor = 0

NoHelper == [original_avg_price |-> 0, implied |-> <<"", 0, RZero>>, exit |-> <<0, 0>>]
HelperIdle == helper = NoHelper
ScraperIdle == now = 0 /\ current_data = Null /\ last_snapshot = Null

-----------------------------------------------------------------------------
(* Specification SpecNorm: one call of normalize_trades_for_diff *)

\* the numeric fields of a feed trade: <<quantity, average_price,
\* last_price, unbooked_pnl, booked_profit_loss>>
FeedPatterns == {<<1, 1, 1, 1, 1>>, <<0, 0, 0, 0, 0>>, <<2, 0, 2, 0, 2>>, <<0, 2, 0, 2, 0>>}

\* feed trades under the canonical field names, with and without the
\* symbol and product
FeedTrades ==
    {[trading_symbol |-> Str("NIFTY24FEB25000PE"), product |-> Str("NRML"),
      quantity |-> Num(x[1]), average_price |-> Num(x[2]), last_price |-> Num(x[3]),
      unbooked_pnl |-> Num(x[4]), booked_profit_loss |-> Num(x[5])] : x \in FeedPatterns}
    \cup
    {[quantity |-> Num(x[1]), average_price |-> Num(x[2]), last_price |-> Num(x[3]),
      unbooked_pnl |-> Num(x[4]), booked_profit_loss |-> Num(x[5])] :
        x \in {<<1, 1, 1, 1, 1>>}}

\* the position groups holding exactly n trades
GroupsWith(n) == {[trades |-> List(ts)] : ts \in [1..n -> FeedTrades]}

\* the lists of exactly g groups holding at most n trades in all
RECURSIVE DataOf(_, _)
DataOf(g, n) ==
    IF g = 0 THEN {<<>>}
    ELSE UNION {{<<grp>> \o rest : grp \in GroupsWith(k), rest \in DataOf(g - 1, n - k)} :
                    k \in 0..n}

NormInputsFeed == UNION {DataOf(g, MaxTrades) : g \in 0..MaxGroups}

\* a group that lacks the trades field or holds null for it, alone or next
\* to a group of one trade
OddGroups == {[underlying |-> Str("NIFTY")], [trades |-> Null]}
NormInputsOdd ==
    {<<o>> : o \in OddGroups}
    \cup {<<o, grp>> : o \in OddGroups, grp \in GroupsWith(1)}
    \cup {<<grp, o>> : o \in OddGroups, grp \in GroupsWith(1)}

\* the values an alias field may hold
AliasVals == {Null, Str("")} \cup {Num(i) : i \in 0..MaxAliasVal}

\* the dicts holding any subset of the fields `names`
DictsOver(names) == UNION {[D -> AliasVals] : D \in SUBSET names}

Range(q) == {q[i] : i \in DOMAIN q}

\* a single trade in which the aliases of one field vary freely
NormInputsAlias ==
    {<<[trades |-> List(<<Merge([trading_symbol |-> Str("NIFTY24FEB25000PE"),
                                  product |-> Str("MIS")], d)>>)]>> :
        d \in UNION {DictsOver(Range(al)) :
                        al \in {QtyAliases, AvgAliases, LastAliases,
                                 UnbookedAliases, BookedAliases}}}

InitNorm ==
    /\ positions_data \in NormInputsFeed \cup NormInputsOdd \cup NormInputsAlias
    /\ norm = NoNorm
    /\ pc = "norm_call"
    /\ DiffIdle
    /\ ReplayIdle
    /\ DbIdle
    /\ HelperIdle
    /\ ScraperIdle

\* trades_map = normalize_trades_for_diff(raw.get('data', []))
Normalize ==
    /\ pc = "norm_call"
    /\ norm' = normalize_trades_for_diff(positions_data)
    /\ pc' = "norm_done"
    /\ UNCHANGED <<positions_data, diffVars, replayVars, dbVars, helperVars,
                   scraperVars>>

NextNorm == Normalize

SpecNorm == InitNorm /\ [][NextNorm]_vars

-----------------------------------------------------------------------------
(* Specification SpecDiff: one call of calculate_diff on bounded inputs *)

K1 == KeyOf("NIFTY24FEB25000PE", "NRML")
K2 == KeyOf("BANKNIFTY24FEB48000CE", "MIS")

Qtys == (-MaxQty)..MaxQty
Prices == 0..MaxPrice
LastPrices == {0, 2, 5}
BookedVals == {0, 3}

\* the trades a snapshot may hold for key k, every field varying
RichTrades(k) ==
    {Trade(k[1], k[2], q, a, l, 0, b) :
        q \in Qtys, a \in Prices, l \in LastPrices, b \in BookedVals}

\* a smaller set of trades for key k, used when two keys vary together
PlainTrades(k) ==
    {Trade(k[1], k[2], q, a, 1, u, 0) : q \in {1, 2}, a \in {0, 1}, u \in {0, 1}}

\* the entries historical_trades may hold for key k
HistTrades(k) ==
    {Trade(k[1], k[2], MaxQty, MaxPrice, 1, 0, 0),
     Trade(k[1], k[2], -1, 1, 0, 0, 0),
     Trade(k[1], k[2], 0, 0, 1, 0, 0)}

\* the maps with at most one trade for k drawn from ts
MapsOf(k, ts) == {EmptyMap} \cup {MapPut(EmptyMap, k, t) : t \in ts}

\* inputs in which one key varies in every field, with a history
DiffInputsRich ==
    {<<p, c, h>> : p \in MapsOf(K1, RichTrades(K1)), c \in MapsOf(K1, RichTrades(K1)),
                   h \in MapsOf(K1, HistTrades(K1))}

\* inputs in which two keys vary together
DiffInputsPlain ==
    {<<Merge(p1, p2), Merge(c1, c2), EmptyMap>> :
        p1 \in MapsOf(K1, PlainTrades(K1)), p2 \in MapsOf(K2, PlainTrades(K2)),
        c1 \in MapsOf(K1, PlainTrades(K1)), c2 \in MapsOf(K2, PlainTrades(K2))}

InitDiff ==
    /\ \E in \in DiffInputsRich \cup DiffInputsPlain :
        /\ prev_map = in[1]
        /\ curr_map = in[2]
        /\ historical_trades = in[3]
    /\ call_prev = prev_map
    /\ call_curr = curr_map
    /\ diff = NoDiff
    /\ pc = "diff_call"
    /\ NormIdle
    /\ ReplayIdle
    /\ DbIdle
    /\ HelperIdle
    /\ ScraperIdle

\* diff_data = calculate_diff(prev_trades, current_trades, historical_trades)
CalculateDiff ==
    /\ pc = "diff_call"
    /\ \E order \in Orders(DOMAIN prev_map \cup DOMAIN curr_map) :
        LET r == calculate_diff(prev_map, curr_map, historical_trades, order)
        IN  /\ prev_map' = r.prev
            /\ curr_map' = r.curr
            /\ diff' = [added |-> r.added, removed |-> r.removed,
                        modified |-> r.modified]
    /\ pc' = "diff_done"
    /\ UNCHANGED <<historical_trades, call_prev, call_curr, normVars, replayVars, dbVars, helperVars,
                   scraperVars>>

NextDiff == CalculateDiff

SpecDiff == InitDiff /\ [][NextDiff]_vars

-----------------------------------------------------------------------------
(* Specification SpecReplay: one request to a lifecycle endpoint, replaying *)
(* the stored snapshots of the profile one loop iteration at a time         *)

K3 == KeyOf("Nifty24FEB25000PE", "MIS")

\* a feed trade under the canonical field names
RawTrade(k, q, a, l, b) ==
    [trading_symbol |-> Str(k[1]), product |-> Str(k[2]), quantity |-> Num(q),
     average_price |-> Num(a), last_price |-> Num(l), unbooked_pnl |-> Num(0),
     booked_profit_loss |-> Num(b)]

\* a decodable raw_data holding the trades ts in one group; an undecodable one
Snap(ts) == [data |-> <<[trades |-> List(ts)]>>]
BadSnap == [bad |-> TRUE]

\* snapshots in which one key takes many shapes: flat, long, grown, with
\* zero average and last price, short, with booked P&L; and a broken payload
RichSnaps ==
    {Snap(<<>>), BadSnap}
    \cup {Snap(<<RawTrade(K1, x[1], x[2], x[3], x[4])>>) :
            x \in {<<0, 0, 0, 0>>, <<1, 2, 3, 0>>, <<2, 2, 0, 0>>,
                   <<1, 0, 0, 0>>, <<-2, 3, 2, 0>>}}

\* snapshots in which three keys come and go together
RECURSIVE SeqOfSet(_)
SeqOfSet(S) ==
    IF S = {} THEN <<>>
    ELSE LET x == CHOOSE y \in S : TRUE IN <<x>> \o SeqOfSet(S \ {x})

MultiSnaps ==
    {Snap(SeqOfSet({RawTrade(k, 1, 2, 3, 0) : k \in ks})) :
        ks \in {{}, {K3}, {K1, K2}, {K1, K2, K3}}}

Requests ==
    {[endpoint |-> "all_underlyings", underlying |-> u, symbol |-> "", product |-> ""] :
        u \in {"", "NIFTY"}}
    \cup
    {[endpoint |-> "symbol_lifecycle", underlying |-> "", symbol |-> "NIFTY24FEB25000PE",
      product |-> pf] : pf \in {"", "NRML"}}

InitReplay ==
    /\ request \in Requests
    /\ snapshots = <<>>
    /\ state = EmptyMap
    /\ underlying_events = EmptyMap
    /\ events = <<>>
    /\ pc = "replay_loop"
    /\ NormIdle
    /\ DiffIdle
    /\ DbIdle
    /\ HelperIdle
    /\ ScraperIdle

\* json.loads(snap['raw_data']) and raw.get('data', []): the decoded data,
\* with ok = FALSE when the payload cannot be decoded
Decode(snap) ==
    IF "bad" \in DOMAIN snap THEN [ok |-> FALSE, data |-> <<>>]
    ELSE [ok |-> TRUE, data |-> snap.data]

\* state.get(key) or the default
StateOf(st_map, key) == IF key \in DOMAIN st_map THEN st_map[key] ELSE NewState

\* del state[key]
MapDel(m, k) == [x \in DOMAIN m \ {k} |-> m[x]]

\* the branch "if underlying_filter and underlying != underlying_filter":
\* the state is updated and no event is emitted
FilteredUpdate_Stale(st, curr_trade) ==
    [present |-> CurrPresent(curr_trade),
     last_trade |-> curr_trade,
     last_good_trade |-> st.last_good_trade]

FilteredUpdate(st, curr_trade) ==
    [present |-> CurrPresent(curr_trade),
     last_trade |-> curr_trade,
     last_good_trade |-> IF IsGood(curr_trade) THEN curr_trade ELSE st.last_good_trade]

\* api_profile_all_underlyings: one iteration of "for key in all_keys_to_check"
UnderlyingsKey(acc, key, trades_map, snap_id, underlying_filter) ==
    LET curr_trade == Get(trades_map, key, NoTrade)
        st == StateOf(acc.state, key)
        src == IF IsTrade(curr_trade) THEN curr_trade ELSE st.last_trade
        symbol == Get(src, "trading_symbol", "")
        product == Get(src, "product", "")
        underlying == get_underlying(symbol)
    IN  IF ~IsTrade(src) THEN acc
        ELSE IF underlying = PyNone
        THEN [acc EXCEPT !.state = MapDel(acc.state, key)]
        ELSE IF underlying_filter # "" /\ underlying # underlying_filter
        THEN [acc EXCEPT !.state = MapPut(acc.state, key, FilteredUpdate(st, curr_trade))]
        ELSE LET tr == Transition(st, curr_trade, snap_id, symbol, product, TRUE)
             IN  [state |-> MapPut(acc.state, key, tr.st),
                  events |-> MapPut(acc.events, underlying,
                                    Get(acc.events, underlying, <<>>) \o tr.events)]

RECURSIVE UnderlyingsLoop(_, _, _, _, _)
UnderlyingsLoop(acc, order, trades_map, snap_id, underlying_filter) ==
    IF order = <<>> THEN acc
    ELSE UnderlyingsLoop(UnderlyingsKey(acc, Head(order), trades_map, snap_id,
                                        underlying_filter),
                         Tail(order), trades_map, snap_id, underlying_filter)

\* api_profile_all_underlyings: one iteration of "for snap in snapshots"; a
\* payload that cannot be decoded is skipped, and a normalization that
\* raises ends the request
UnderlyingsRead(snap) ==
    /\ pc = "replay_loop"
    /\ request.endpoint = "all_underlyings"
    /\ Len(snapshots) < MaxSnaps
    /\ snapshots' = Append(snapshots, snap)
    /\ LET raw == Decode(snap)
           n == normalize_trades_for_diff(raw.data)
       IN  IF ~raw.ok
           THEN UNCHANGED <<state, underlying_events, pc>>
           ELSE IF n.raised
           THEN pc' = "replay_error" /\ UNCHANGED <<state, underlying_events>>
           ELSE \E order \in Orders(DOMAIN n.trades_map \cup DOMAIN state) :
                    LET acc == UnderlyingsLoop(
                                  [state |-> state, events |-> underlying_events],
                                  order, n.trades_map, Len(snapshots) + 1,
                                  request.underlying)
                    IN  /\ state' = acc.state
                        /\ underlying_events' = acc.events
                        /\ pc' = pc
    /\ UNCHANGED <<request, events, normVars, helperVars, scraperVars>>

\* the next stored snapshot, of the family read so far
UnderlyingsSnapshot ==
    /\ \E snap \in RichSnaps \cup MultiSnaps :
        /\ \/ Range(snapshots) \cup {snap} \subseteq RichSnaps
           \/ Range(snapshots) \cup {snap} \subseteq MultiSnaps
        /\ UnderlyingsRead(snap)
    /\ UNCHANGED <<diffVars, dbVars>>

\* api_profile_symbol_lifecycle: the keys of the snapshot that match the
\* query (symbol compared in upper case, product when given) ...
MatchingListed(trades_map, symbol_norm, product_filter) ==
    {key \in DOMAIN trades_map :
        /\ Upper(IF trades_map[key].trading_symbol = PyNone THEN ""
                 ELSE trades_map[key].trading_symbol) = symbol_norm
        /\ product_filter # "" =>
              (IF trades_map[key].product = PyNone THEN ""
               ELSE trades_map[key].product) = product_filter}

\* ... and the tracked keys that start with symbol_norm + "|" and are gone
\* from the snapshot
MatchingGone(st_map, trades_map, symbol_norm, product_filter) ==
    {key \in DOMAIN st_map :
        /\ key[1] = symbol_norm
        /\ product_filter # "" => key[2] = product_filter
        /\ key \notin DOMAIN trades_map}

\* api_profile_symbol_lifecycle: one iteration of "for key in matching_keys"
LifecycleKey(acc, key, trades_map, snap_id, symbol_norm) ==
    LET tr == Transition(StateOf(acc.state, key), Get(trades_map, key, NoTrade),
                         snap_id, symbol_norm, key[2], FALSE)
    IN  [state |-> MapPut(acc.state, key, tr.st), events |-> acc.events \o tr.events]

RECURSIVE LifecycleLoop(_, _, _, _, _)
LifecycleLoop(acc, order, trades_map, snap_id, symbol_norm) ==
    IF order = <<>> THEN acc
    ELSE LifecycleLoop(LifecycleKey(acc, Head(order), trades_map, snap_id, symbol_norm),
                       Tail(order), trades_map, snap_id, symbol_norm)

\* api_profile_symbol_lifecycle: one iteration of "for snap in snapshots"; a
\* payload that cannot be decoded is read as {}
LifecycleSnapshot ==
    /\ pc = "replay_loop"
    /\ request.endpoint = "symbol_lifecycle"
    /\ Len(snapshots) < MaxSnaps
    /\ \E snap \in RichSnaps \cup MultiSnaps :
        /\ \/ Range(snapshots) \cup {snap} \subseteq RichSnaps
           \/ Range(snapshots) \cup {snap} \subseteq MultiSnaps
        /\ snapshots' = Append(snapshots, snap)
        /\ LET n == normalize_trades_for_diff(Decode(snap).data)
               symbol_norm == Upper(request.symbol)
           IN  IF n.raised
               THEN pc' = "replay_error" /\ UNCHANGED <<state, events>>
               ELSE \E listed \in Orders(MatchingListed(n.trades_map, symbol_norm,
                                                        request.product)),
                       gone \in Orders(MatchingGone(state, n.trades_map, symbol_norm,
                                                    request.product)) :
                        LET acc == LifecycleLoop([state |-> state, events |-> events],
                                                 listed \o gone, n.trades_map,
                                                 Len(snapshots) + 1, symbol_norm)
                        IN  /\ state' = acc.state
                            /\ events' = acc.events
                            /\ pc' = pc
    /\ UNCHANGED <<request, underlying_events, normVars, diffVars, dbVars, helperVars,
                   scraperVars>>

\* the end of either request: the events are sorted latest first and returned
ReplayReturn ==
    /\ pc = "replay_loop"
    /\ pc' = "replay_done"
    /\ events' = SortLatestFirst(events)
    /\ underlying_events' =
          [u \in DOMAIN underlying_events |-> SortLatestFirst(underlying_events[u])]
    /\ UNCHANGED <<request, snapshots, state, normVars, diffVars, dbVars, helperVars,
                   scraperVars>>

NextReplay == UnderlyingsSnapshot \/ LifecycleSnapshot \/ ReplayReturn

SpecReplay == InitReplay /\ [][NextReplay]_vars

-----------------------------------------------------------------------------
(* Daily P&L metrics *)

\* date(timestamp): a timestamp is the day times TicksPerDay plus the time
\* of the day
TicksPerDay == 10
DateOf(timestamp) == timestamp \div TicksPerDay

\* the inner loops of calculate_snapshot_pnl over one group's trades and
\* over the groups: <<total, booked>>
RECURSIVE PnlOfTrades(_, _)
PnlOfTrades(acc, ts) ==
    IF ts = <<>> THEN acc
    ELSE LET u_pnl == IF "unbooked_pnl" \in DOMAIN Head(ts)
                      THEN Head(ts).unbooked_pnl.num ELSE 0
             b_pnl == IF "booked_profit_loss" \in DOMAIN Head(ts)
                      THEN Head(ts).booked_profit_loss.num ELSE 0
         IN  PnlOfTrades(<<acc[1] + (u_pnl + b_pnl), acc[2] + b_pnl>>, Tail(ts))

RECURSIVE PnlOfData(_, _)
PnlOfData(acc, data) ==
    IF data = <<>> THEN acc
    ELSE PnlOfData(PnlOfTrades(acc, IF "trades" \in DOMAIN Head(data)
                                    THEN Head(data).trades.list ELSE <<>>),
                   Tail(data))

\* the sums over raw.get('data', [])
PnlOfRaw_UnbookedOnly(raw) ==
    LET r == PnlOfData(<<0, 0>>, IF "data" \in DOMAIN raw THEN raw.data ELSE <<>>)
    IN  <<r[1] - r[2], r[2]>>

PnlOfRaw(raw) == PnlOfData(<<0, 0>>, IF "data" \in DOMAIN raw THEN raw.data ELSE <<>>)

\* the rows of a table that satisfy a test, and the one of them that an
\* ORDER BY ... LIMIT 1 returns
Rows(table) == {table[i] : i \in DOMAIN table}
LastByTimestamp(rows) == CHOOSE r \in rows : \A x \in rows : x.timestamp <= r.timestamp
FirstByTimestamp(rows) == CHOOSE r \in rows : \A x \in rows : x.timestamp >= r.timestamp

\* calculate_snapshot_pnl(c, snapshot_id)
calculate_snapshot_pnl(tables, snapshot_id) ==
    LET snap == {r \in Rows(tables.snapshots) : r.id = snapshot_id}
    IN  IF snap = {} THEN <<0, 0>>
        ELSE PnlOfRaw((CHOOSE r \in snap : TRUE).raw_data)

\* use_realtime
UseRealtime_Always(tables, date, today_str) == tables.latest_snapshots # <<>>

UseRealtime(tables, date, today_str) ==
    date = today_str /\ tables.latest_snapshots # <<>>

\* get_daily_pnl_metrics(c, profile_id, date), today_str being the date of
\* now_ist()
get_daily_pnl_metrics(tables, date, today_str) ==
    LET prev_changes == {r \in Rows(tables.position_changes) : DateOf(r.timestamp) < date}
        day_changes == {r \in Rows(tables.position_changes) : DateOf(r.timestamp) = date}
        start_day_pnl ==
            IF prev_changes # {}
            THEN LET p == calculate_snapshot_pnl(tables,
                                                 LastByTimestamp(prev_changes).snapshot_id)
                 IN  p[1] - p[2]
            ELSE IF day_changes # {}
            THEN calculate_snapshot_pnl(tables,
                                        FirstByTimestamp(day_changes).snapshot_id)[1]
            ELSE 0
        day_snaps == {r \in Rows(tables.snapshots) : DateOf(r.timestamp) = date}
        current ==
            IF UseRealtime(tables, date, today_str)
            THEN <<PnlOfRaw(tables.latest_snapshots[1].raw_data),
                   Num(tables.latest_snapshots[1].timestamp)>>
            ELSE IF day_snaps # {}
            THEN <<calculate_snapshot_pnl(tables, LastByTimestamp(day_snaps).id),
                   Num(LastByTimestamp(day_snaps).timestamp)>>
            ELSE <<<<0, 0>>, Null>>
    IN  [start_pnl |-> start_day_pnl,
         current_pnl |-> current[1][1],
         todays_pnl |-> current[1][1] - start_day_pnl,
         booked_pnl |-> current[1][2],
         last_updated |-> current[2]]

-----------------------------------------------------------------------------
(* Specification SpecPnl: one call of get_daily_pnl_metrics on tables as    *)
(* the scraper writes them                                                  *)

\* a feed trade with its two P&L fields
PnlTrade(k, u, b) ==
    [trading_symbol |-> Str(k[1]), product |-> Str(k[2]), quantity |-> Num(1),
     unbooked_pnl |-> Num(u), booked_profit_loss |-> Num(b)]

\* payloads: no positions, one trade, the same key listed twice next to a
\* trade without P&L fields and a group without trades
PnlPayloads ==
    {[data |-> <<>>],
     Snap(<<PnlTrade(K1, 2, 1)>>),
     [data |-> <<[trades |-> List(<<PnlTrade(K1, 3, 0), PnlTrade(K1, -1, 4)>>)],
                 [underlying |-> Str("NIFTY")],
                 [trades |-> List(<<[trading_symbol |-> Str(K2[1])]>>)]>>]}

\* the tables after the scraper recorded the payloads ps on the days ds:
\* every stored snapshot has its position_changes row, written with it
TablesOf(ps, ds, latest) ==
    [snapshots |-> [i \in DOMAIN ps |->
                       [id |-> i, timestamp |-> ds[i] * TicksPerDay + i, raw_data |-> ps[i]]],
     position_changes |-> [i \in DOMAIN ps |->
                       [id |-> i, snapshot_id |-> i, timestamp |-> ds[i] * TicksPerDay + i]],
     latest_snapshots |-> latest]

Days == 1..MaxDay
NonDecreasing(ds) == \A i \in DOMAIN ds : \A j \in DOMAIN ds : i <= j => ds[i] <= ds[j]

\* the latest_snapshots row: none, or the last fetch, made on the last day
LatestRows ==
    {<<>>} \cup {<<[raw_data |-> p, timestamp |-> MaxDay * TicksPerDay + TicksPerDay - 1]>> :
                    p \in PnlPayloads \ {[data |-> <<>>]}}

PnlTables ==
    UNION {{TablesOf(ps, ds, latest) :
                ps \in [1..n -> PnlPayloads],
                ds \in {d \in [1..n -> Days] : NonDecreasing(d)},
                latest \in LatestRows} : n \in 0..MaxRows}

InitPnl ==
    /\ db \in PnlTables
    /\ query \in {[endpoint |-> "daily_view", date |-> d, today |-> t, change_id |-> 0] :
                     d \in Days, t \in {MaxDay, MaxDay + 1}}
    /\ metrics = NoMetrics
    /\ cursor = 0
    /\ pc = "pnl_call"
    /\ NormIdle
    /\ DiffIdle
    /\ ReplayIdle
    /\ HelperIdle
    /\ ScraperIdle

\* metrics = get_daily_pnl_metrics(c, profile['id'], date)
GetDailyPnlMetrics ==
    /\ pc = "pnl_call"
    /\ metrics' = get_daily_pnl_metrics(db, query.date, query.today)
    /\ pc' = "pnl_done"
    /\ UNCHANGED <<db, query, cursor, normVars, diffVars, replayVars, helperVars,
                   scraperVars>>

NextPnl == GetDailyPnlMetrics

SpecPnl == InitPnl /\ [][NextPnl]_vars

-----------------------------------------------------------------------------
(* Specification SpecCallers: one request to api_diff or daily_log, which   *)
(* builds the historical map one stored snapshot at a time and passes it to *)
(* calculate_diff                                                           *)

\* fetchall() of "... ORDER BY id DESC"
RECURSIVE DescById(_)
DescById(rows) ==
    IF rows = {} THEN <<>>
    ELSE LET r == CHOOSE x \in rows : \A y \in rows : y.id <= x.id
         IN  <<r>> \o DescById(rows \ {r})

\* fetchall() of "... ORDER BY timestamp ASC"
RECURSIVE AscByTimestamp(_)
AscByTimestamp(rows) ==
    IF rows = {} THEN <<>>
    ELSE LET r == CHOOSE x \in rows : \A y \in rows : x.timestamp <= y.timestamp
         IN  <<r>> \o AscByTimestamp(rows \ {r})

\* SELECT * FROM snapshots WHERE profile_id = ? AND id < ? ORDER BY id DESC
all_prev_snapshots(tables, snapshot_id) ==
    DescById({r \in Rows(tables.snapshots) : r.id < snapshot_id})

\* normalize_trades_for_diff(json.loads(snap['raw_data']).get('data', []))
TradesOfRow(row) == normalize_trades_for_diff(row.raw_data.data).trades_map

\* the trades of the snapshot with this id, {} when there is none
TradesOfId(tables, snapshot_id) ==
    LET snap == {r \in Rows(tables.snapshots) : r.id = snapshot_id}
    IN  IF snap = {} THEN EmptyMap ELSE TradesOfRow(CHOOSE r \in snap : TRUE)

\* the latest snapshot before this one: ORDER BY id DESC LIMIT 1
prev_trades(tables, snapshot_id) ==
    LET rows == all_prev_snapshots(tables, snapshot_id)
    IN  IF rows = <<>> THEN EmptyMap ELSE TradesOfRow(rows[1])

\* the test a trade passes to enter the historical map: api_diff wants a
\* quantity and an average price, daily_log a quantity
Keeps(endpoint, trade) ==
    IF endpoint = "api_diff"
    THEN trade.quantity # 0 /\ trade.average_price # 0
    ELSE trade.quantity # 0

\* one iteration of "for snap in all_prev_snapshots": the loop over
\* trades.items() merged into the map
HistMerge(endpoint, hist, trades) ==
    [key \in DOMAIN hist \cup {k \in DOMAIN trades : Keeps(endpoint, trades[k])} |->
        IF key \notin DOMAIN hist THEN trades[key]
        ELSE IF /\ key \in DOMAIN trades
                /\ ~Keeps(endpoint, hist[key])
                /\ Keeps(endpoint, trades[key])
        THEN trades[key]
        ELSE hist[key]]

\* the position_changes rows the request goes through: the one with the
\* given id, or those of the day in chronological order
ChangesOf(tables, q) ==
    IF q.endpoint = "api_diff"
    THEN AscByTimestamp({r \in Rows(tables.position_changes) : r.id = q.change_id})
    ELSE AscByTimestamp({r \in Rows(tables.position_changes) :
                            DateOf(r.timestamp) = q.date})

\* the row of the change in hand
ChangeInHand == CHOOSE r \in Rows(db.position_changes) : r.id = query.change_id

\* the days of the stored rows: the day before and the day asked for
CallDays == {1, 2}

\* payloads in which one key is absent, held, held at another price and
\* size, held with no average price, and held next to a second key
CallPayloads ==
    {Snap(<<>>),
     Snap(<<RawTrade(K1, 1, 2, 3, 0)>>),
     Snap(<<RawTrade(K1, 2, 3, 1, 0)>>),
     Snap(<<RawTrade(K1, 1, 0, 0, 0)>>),
     Snap(<<RawTrade(K1, 0, 0, 0, 0), RawTrade(K2, -1, 1, 2, 0)>>)}

CallTables ==
    UNION {{TablesOf(ps, ds, <<>>) :
                ps \in [1..n -> CallPayloads],
                ds \in {d \in [1..n -> CallDays] : NonDecreasing(d)}} : n \in 1..MaxRows}

CallQueries(tables) ==
    {[endpoint |-> "api_diff", date |-> 0, today |-> 0, change_id |-> i] :
        i \in DOMAIN tables.position_changes}
    \cup
    {[endpoint |-> "daily_log", date |-> d, today |-> 2, change_id |-> 0] : d \in CallDays}

InitCallers ==
    /\ db \in CallTables
    /\ query \in CallQueries(db)
    /\ metrics = NoMetrics
    /\ cursor = 0
    /\ pc = "hist_start"
    /\ DiffIdle
    /\ NormIdle
    /\ ReplayIdle
    /\ HelperIdle
    /\ ScraperIdle

\* the handler up to its first change: api_diff looks its change up,
\* daily_log computes the day's metrics and takes the first change of the day
HistBegin ==
    /\ pc = "hist_start"
    /\ LET changes == ChangesOf(db, query)
       IN  /\ metrics' = IF query.endpoint = "daily_log"
                         THEN get_daily_pnl_metrics(db, query.date, query.today)
                         ELSE metrics
           /\ IF changes = <<>>
              THEN pc' = "hist_done" /\ query' = query
              ELSE pc' = "hist_loop" /\ query' = [query EXCEPT !.change_id = changes[1].id]
    /\ UNCHANGED <<db, cursor, diffVars, normVars, replayVars, helperVars,
                   scraperVars>>

\* one iteration of "for snap in all_prev_snapshots"
HistSnapshot ==
    /\ pc = "hist_loop"
    /\ LET rows == all_prev_snapshots(db, ChangeInHand.snapshot_id)
       IN  /\ cursor < Len(rows)
           /\ historical_trades' =
                 HistMerge(query.endpoint, historical_trades, TradesOfRow(rows[cursor + 1]))
           /\ cursor' = cursor + 1
    /\ UNCHANGED <<pc, db, query, metrics, prev_map, curr_map, call_prev, call_curr, diff,
                   normVars, replayVars, helperVars,
                   scraperVars>>

\* diff_data = calculate_diff(prev_trades, current_trades, historical_trades)
HistDiff ==
    /\ pc = "hist_loop"
    /\ cursor = Len(all_prev_snapshots(db, ChangeInHand.snapshot_id))
    /\ LET p == prev_trades(db, ChangeInHand.snapshot_id)
           c == TradesOfId(db, ChangeInHand.snapshot_id)
       IN  \E order \in Orders(DOMAIN p \cup DOMAIN c) :
              LET r == calculate_diff(p, c, historical_trades, order)
              IN  /\ call_prev' = p
                  /\ call_curr' = c
                  /\ prev_map' = r.prev
                  /\ curr_map' = r.curr
                  /\ diff' = [added |-> r.added, removed |-> r.removed,
                              modified |-> r.modified]
    /\ pc' = "hist_called"
    /\ UNCHANGED <<historical_trades, dbVars, normVars, replayVars, helperVars,
                   scraperVars>>

\* the next change of the day in daily_log, with a fresh map; the response
\* otherwise
HistAdvance ==
    /\ pc = "hist_called"
    /\ LET later == {r \in Rows(db.position_changes) :
                        /\ query.endpoint = "daily_log"
                        /\ DateOf(r.timestamp) = query.date
                        /\ r.timestamp > ChangeInHand.timestamp}
       IN  IF later = {}
           THEN /\ pc' = "hist_done"
                /\ UNCHANGED <<query, cursor, historical_trades>>
           ELSE /\ pc' = "hist_loop"
                /\ query' = [query EXCEPT !.change_id = AscByTimestamp(later)[1].id]
                /\ cursor' = 0
                /\ historical_trades' = EmptyMap
    /\ UNCHANGED <<db, metrics, prev_map, curr_map, call_prev, call_curr, diff,
                   normVars, replayVars, helperVars,
                   scraperVars>>

NextCallers == HistBegin \/ HistSnapshot \/ HistDiff \/ HistAdvance

SpecCallers == InitCallers /\ [][NextCallers]_vars

-----------------------------------------------------------------------------
(* Specification SpecHelpers: _compute_implied_fill, _compute_exit_metrics  *)
(* and calculate_diff applied to one pair of trades in which any field may  *)
(* be zero                                                                  *)

\* a pair of maps for one key, or without it, and the average price passed
\* as original_avg_price (0 when there is none)
HelperInputs ==
    {<<p, c, oa>> : p \in MapsOf(K1, RichTrades(K1)), c \in MapsOf(K1, RichTrades(K1)),
                    oa \in {0, MaxPrice}}

InitHelpers ==
    /\ \E in \in HelperInputs :
        /\ prev_map = in[1]
        /\ curr_map = in[2]
        /\ helper = [NoHelper EXCEPT !.original_avg_price = in[3]]
    /\ historical_trades = EmptyMap
    /\ call_prev = prev_map
    /\ call_curr = curr_map
    /\ diff = NoDiff
    /\ pc = "helper_call"
    /\ NormIdle
    /\ ReplayIdle
    /\ DbIdle
    /\ ScraperIdle

\* _compute_implied_fill(prev_trade or {}, curr_trade or {}, original_avg_price)
\* and _compute_exit_metrics(prev_trade) on the trades of the key
ComputeHelpers ==
    /\ pc = "helper_call"
    /\ LET prev_trade == Get(prev_map, K1, NoTrade)
           curr_trade == Get(curr_map, K1, NoTrade)
       IN  helper' = [helper EXCEPT
                         !.implied = _compute_implied_fill(prev_trade, curr_trade,
                                                           helper.original_avg_price),
                         !.exit = _compute_exit_metrics(prev_trade)]
    /\ pc' = "diff_call"
    /\ UNCHANGED <<diffVars, normVars, replayVars, dbVars, scraperVars>>

NextHelpers == ComputeHelpers \/ CalculateDiff

SpecHelpers == InitHelpers /\ [][NextHelpers]_vars

-----------------------------------------------------------------------------
(* Specification SpecPair: the per-underlying replay of the stored          *)
(* snapshots, and api_diff for the change recorded with one of them         *)

\* snapshots holding one key long or short, with one or two lots, at an
\* average price and a last price, or nothing
PairSnaps ==
    {Snap(<<>>)}
    \cup {Snap(<<RawTrade(K1, x[1], x[2], x[3], 0)>>) :
            x \in {<<2, 2, 3>>, <<1, 2, 3>>, <<1, 3, 1>>, <<-2, 3, 1>>, <<-1, 3, 1>>}}

InitPair ==
    /\ request \in {r \in Requests : r.endpoint = "all_underlyings"}
    /\ snapshots = <<>>
    /\ state = EmptyMap
    /\ underlying_events = EmptyMap
    /\ events = <<>>
    /\ pc = "replay_loop"
    /\ NormIdle
    /\ DiffIdle
    /\ DbIdle
    /\ HelperIdle
    /\ ScraperIdle

\* api_profile_all_underlyings: one iteration of "for snap in snapshots"
PairSnapshot ==
    /\ \E snap \in PairSnaps : UnderlyingsRead(snap)
    /\ UNCHANGED <<diffVars, dbVars>>

\* the historical map api_diff builds from the trades maps of the earlier
\* snapshots, latest first
RECURSIVE HistFold(_, _, _)
HistFold(endpoint, hist, maps) ==
    IF maps = <<>> THEN hist
    ELSE HistFold(endpoint, HistMerge(endpoint, hist, Head(maps)), Tail(maps))

\* api_diff for the change recorded with the i-th snapshot: the replay has
\* returned, and the diff of the snapshot and the one before it is asked for
PairDiff ==
    /\ pc = "replay_loop"
    /\ \E i \in 2..Len(snapshots) :
        LET trades(j) == normalize_trades_for_diff(snapshots[j].data).trades_map
            hist == HistFold("api_diff", EmptyMap, [j \in 1..(i - 1) |-> trades(i - j)])
        IN  /\ query' = [endpoint |-> "api_diff", date |-> 0, today |-> 0, change_id |-> i]
            /\ historical_trades' = hist
            /\ call_prev' = trades(i - 1)
            /\ call_curr' = trades(i)
            /\ \E order \in Orders(DOMAIN trades(i - 1) \cup DOMAIN trades(i)) :
                  LET r == calculate_diff(trades(i - 1), trades(i), hist, order)
                  IN  /\ prev_map' = r.prev
                      /\ curr_map' = r.curr
                      /\ diff' = [added |-> r.added, removed |-> r.removed,
                                  modified |-> r.modified]
    /\ underlying_events' =
          [u \in DOMAIN underlying_events |-> SortLatestFirst(underlying_events[u])]
    /\ pc' = "pair_done"
    /\ UNCHANGED <<request, snapshots, state, events, db, metrics, cursor, normVars,
                   helperVars, scraperVars>>

NextPair == PairSnapshot \/ PairDiff

SpecPair == InitPair /\ [][NextPair]_vars

-----------------------------------------------------------------------------
(* Specification SpecScraper: runs of run_scraper for one tracked profile    *)
(* without subscriptions, one action per run                                 *)

\* a nested JSON object
Dict(d) == [dict |-> d]

\* the strings of the feed in Python's order of str
StrOrder == <<"", "BANKNIFTY24FEB48000CE", "CE", "MIS", "NIFTY24FEB25000PE", "NRML", "PE">>
StrRank(x) == CHOOSE i \in DOMAIN StrOrder : StrOrder[i] = x

\* x or '' and x or 0 of a raw value
OrEmptyStr(v) == IF Truthy(v) THEN v.str ELSE ""
OrZero(v) == IF Truthy(v) THEN v.num ELSE 0

\* t.get('instrument_info') or {}
InstrumentInfoOf(t) ==
    LET v == RawGet(t, "instrument_info")
    IN  IF "dict" \in DOMAIN v THEN v.dict ELSE EmptyMap

\* the dict get_normalized_trades builds for one trade
trade_key(t) ==
    [symbol |-> RawGet(t, "trading_symbol"),
     product |-> RawGet(t, "product"),
     strike |-> RawGet(InstrumentInfoOf(t), "strike"),
     option_type |-> RawGet(InstrumentInfoOf(t), "instrument_type"),
     quantity |-> RawGet(t, "quantity")]

\* p.get('trades', [])
GroupTrades(p) ==
    IF "trades" \in DOMAIN p /\ "list" \in DOMAIN p.trades THEN p.trades.list ELSE <<>>

\* the two loops of get_normalized_trades: all_trades before the sort
RECURSIVE AllTrades(_)
AllTrades(positions) ==
    IF positions = <<>> THEN <<>>
    ELSE LET ts == GroupTrades(Head(positions))
         IN  [i \in DOMAIN ts |-> trade_key(ts[i])] \o AllTrades(Tail(positions))

\* the key of all_trades.sort and the order of Python tuples
SortKey(x) ==
    <<StrRank(OrEmptyStr(x.symbol)), StrRank(OrEmptyStr(x.product)), OrZero(x.strike),
      StrRank(OrEmptyStr(x.option_type)), OrZero(x.quantity)>>
TupleLess(a, b) ==
    \E i \in DOMAIN a : a[i] < b[i] /\ \A j \in 1..(i - 1) : a[j] = b[j]

\* list.sort is stable: an element goes behind the elements that do not
\* sort after it
RECURSIVE StableSort(_)
StableSort(xs) ==
    IF xs = <<>> THEN <<>>
    ELSE LET front == StableSort(SubSeq(xs, 1, Len(xs) - 1))
             x == xs[Len(xs)]
             n == Cardinality({i \in DOMAIN front :
                                  ~TupleLess(SortKey(x), SortKey(front[i]))})
         IN  SubSeq(front, 1, n) \o <<x>> \o SubSeq(front, n + 1, Len(front))

\* get_normalized_trades(data), data.get('data', [])
DataList(data) == IF "data" \in DOMAIN data THEN data.data ELSE <<>>
get_normalized_trades(data) == StableSort(AllTrades(DataList(data)))

\* _positions_key(trade)
_positions_key(trade) == <<trade.symbol, trade.product, trade.strike, trade.option_type>>

\* {_positions_key(t): (t.get('quantity') or 0) for t in trades}
RECURSIVE QuantityMap(_, _)
QuantityMap(m, trades) ==
    IF trades = <<>> THEN m
    ELSE QuantityMap(Put(m, _positions_key(Head(trades)), OrZero(Head(trades).quantity)),
                     Tail(trades))

\* generate_diff_summary(old_data, new_data): the label and the counts the
\* f-string prints in it
generate_diff_summary(old_data, new_data) ==
    LET old_map == QuantityMap(EmptyMap, get_normalized_trades(old_data))
        new_map == QuantityMap(EmptyMap, get_normalized_trades(new_data))
        old_keys == DOMAIN old_map
        new_keys == DOMAIN new_map
        added_count == Cardinality(new_keys \ old_keys)
        removed_count == Cardinality(old_keys \ new_keys)
        modified_count == Cardinality({k \in old_keys \cap new_keys :
                                          old_map[k] # new_map[k]})
    IN  IF added_count # 0 /\ removed_count = 0 /\ modified_count = 0
        THEN [label |-> "Positions Added", counts |-> <<added_count>>]
        ELSE IF removed_count # 0 /\ added_count = 0 /\ modified_count = 0
        THEN [label |-> "Positions Reduced", counts |-> <<removed_count>>]
        ELSE IF modified_count # 0 /\ added_count = 0 /\ removed_count = 0
        THEN [label |-> "Positions Modified", counts |-> <<modified_count>>]
        ELSE [label |-> "Positions Changed",
              counts |-> <<added_count, removed_count, modified_count>>]

\* a change test that compares the payloads as fetched
ChangeDetected_Raw(current, last_data) == current # last_data

\* the change test of run_scraper
ChangeDetected(current, last_data) ==
    get_normalized_trades(current) # get_normalized_trades(last_data)

DAYS_TO_KEEP_DATA == 30

\* cleanup_old_data(conn) at the time t.  Both comparisons are comparisons
\* of strings: a position_changes timestamp is stored with a blank between
\* date and time and the cutoff is printed with a "T", so a row goes when its
\* date is not after the cutoff's date; created_at_source is compared as the
\* feed printed it, and NULL is never below the cutoff
cleanup_old_data(tables, t) ==
    LET cutoff_date == t - DAYS_TO_KEEP_DATA * TicksPerDay
        KeepChange(r) == ~(DateOf(r.timestamp) <= DateOf(cutoff_date))
        KeepSnapshot(r) == ~(~IsNull(r.created_at_source)
                             /\ r.created_at_source.num < cutoff_date)
    IN  [tables EXCEPT !.position_changes = SelectSeq(@, KeepChange),
                       !.snapshots = SelectSeq(@, KeepSnapshot)]

\* SELECT raw_data FROM snapshots WHERE profile_id = ? ORDER BY
\* created_at_source DESC LIMIT 1: the rows the query may return.  NULL sorts
\* below every value, and the order among equal values is not defined
LastSnapshotRows(tables) ==
    LET rows == Rows(tables.snapshots)
        dated == {r \in rows : ~IsNull(r.created_at_source)}
    IN  IF dated # {}
        THEN {r \in dated : \A x \in dated : x.created_at_source.num <= r.created_at_source.num}
        ELSE rows

\* save_snapshot(conn, profile_id, data, timestamp) and the INSERT INTO
\* position_changes that follows it; the ids are AUTOINCREMENT
save_snapshot(tables, data, t) ==
    LET id == tables.sqlite_sequence.snapshots + 1
    IN  [tables EXCEPT !.snapshots = Append(@, [id |-> id,
                                                created_at_source |-> RawGet(data, "created_at"),
                                                timestamp |-> t,
                                                raw_data |-> data]),
                       !.sqlite_sequence.snapshots = id]
InsertChange(tables, snapshot_id, t, summary) ==
    LET id == tables.sqlite_sequence.position_changes + 1
    IN  [tables EXCEPT !.position_changes = Append(@, [id |-> id,
                                                       snapshot_id |-> snapshot_id,
                                                       timestamp |-> t,
                                                       diff_summary |-> summary]),
                       !.sqlite_sequence.position_changes = id]

\* upsert_latest_snapshot(conn, profile_id, data, timestamp)
upsert_latest_snapshot(tables, data, t) ==
    [tables EXCEPT !.latest_snapshots = <<[raw_data |-> data, timestamp |-> t]>>]

InitialSummary == [label |-> "Initial Snapshot", counts |-> <<>>]

\* the body of the loop of run_scraper for the profile, after the cleanup:
\* the tables it leaves when the query returned the row last (Null: no row)
\* and fetch_data returned fetched (Null: no data)
ProfileStep(tables, last, market_open, fetched, t) ==
    LET should_run == IsNull(last) \/ market_open
        latest == upsert_latest_snapshot(tables, fetched, t)
        saved == save_snapshot(latest, fetched, t)
        snapshot_id == saved.sqlite_sequence.snapshots
    IN  IF ~should_run \/ IsNull(fetched) THEN tables
        ELSE IF IsNull(last)
        THEN InsertChange(saved, snapshot_id, t, InitialSummary)
        ELSE IF ChangeDetected(fetched, last.raw_data)
        THEN InsertChange(saved, snapshot_id, t,
                          generate_diff_summary(last.raw_data, fetched))
        ELSE latest

\* a feed trade with its instrument_info
LegTrade(k, strike, type, q, a) ==
    [trading_symbol |-> Str(k[1]), product |-> Str(k[2]), quantity |-> q,
     average_price |-> Num(a),
     instrument_info |-> Dict([strike |-> Num(strike), instrument_type |-> Str(type)])]
Leg1(q, a) == LegTrade(K1, 25000, "PE", q, a)

\* the trades of a fetch: one leg at two prices and two quantities, and the
\* leg listed twice
FetchedTrades ==
    {<<Leg1(Num(1), 1)>>, <<Leg1(Num(1), 2)>>, <<Leg1(Num(2), 1)>>,
     <<Leg1(Num(1), 1), Leg1(Num(1), 1)>>}
UndatedTrades == {<<Leg1(Num(1), 1)>>, <<Leg1(Num(2), 1)>>}

\* position_snapshot_data of the response at the time t: created_at is the
\* time of the fetch, or missing
Fetches(t) ==
    {Null}
    \cup {[data |-> <<[trades |-> List(ts)]>>, created_at |-> Num(t)] : ts \in FetchedTrades}
    \cup {[data |-> <<[trades |-> List(ts)]>>] : ts \in UndatedTrades}

\* the clock: the times at which a run may come, a tick and the first tick
\* after its retention period
ClockTimes == {0, DAYS_TO_KEEP_DATA * TicksPerDay + 1}

InitScraper ==
    /\ db = [snapshots |-> <<>>, position_changes |-> <<>>, latest_snapshots |-> <<>>,
             sqlite_sequence |-> [snapshots |-> 0, position_changes |-> 0]]
    /\ now = 0
    /\ current_data = Null
    /\ last_snapshot = Null
    /\ pc = "scraper"
    /\ query = NoQuery /\ metrics = NoMetrics /\ cursor = 0
    /\ NormIdle
    /\ DiffIdle
    /\ ReplayIdle
    /\ HelperIdle

\* run_scraper() with one active profile: cleanup_old_data, the query for
\* last_snapshot, fetch_data, upsert_latest_snapshot and, for an initial or a
\* changed fetch, save_snapshot and the position_changes row.  The profile
\* has no subscriptions, so generate_notifications_for_changes returns at
\* its first test.  is_market_open() reads weekday and hour of the clock;
\* fetch_data is called only when should_run holds.
RunScraper ==
    /\ pc = "scraper"
    /\ \E t \in ClockTimes, market_open \in BOOLEAN :
         LET cleaned == cleanup_old_data(db, t)
             found == LastSnapshotRows(cleaned)
         IN  /\ t >= now
             /\ \E last \in (IF found = {} THEN {Null} ELSE found) :
                  \E fetched \in (IF IsNull(last) \/ market_open THEN Fetches(t) ELSE {Null}) :
                     LET after == ProfileStep(cleaned, last, market_open, fetched, t)
                     IN  /\ after.sqlite_sequence.snapshots <= MaxRows
                         /\ now' = t
                         /\ db' = after
                         /\ last_snapshot' = last
                         /\ current_data' = fetched
    /\ UNCHANGED <<pc, query, metrics, cursor, normVars, diffVars, replayVars, helperVars>>

NextScraper == RunScraper

SpecScraper == InitScraper /\ [][NextScraper]_vars

-----------------------------------------------------------------------------
(* Properties of normalize_trades_for_diff, stated over positions_data and *)
(* the outcome norm                                                        *)

NormDone == pc = "norm_done"

\* the trades of every group that lists trades, in feed order
RECURSIVE Listed(_)
Listed(groups) ==
    IF groups = <<>> THEN <<>>
    ELSE (IF "trades" \in DOMAIN Head(groups) /\ "list" \in DOMAIN Head(groups).trades
          THEN Head(groups).trades.list ELSE <<>>) \o Listed(Tail(groups))

\* symbol|product of a raw trade, a missing part reading "None"
RawPart(t, f) == IF f \in DOMAIN t /\ "str" \in DOMAIN t[f] THEN t[f].str ELSE "None"
RawKey(t) == <<RawPart(t, "trading_symbol"), RawPart(t, "product")>>

\* the value is neither absent, null, empty nor zero
Usable(t, f) ==
    /\ f \in DOMAIN t
    /\ \/ ("num" \in DOMAIN t[f] /\ t[f].num # 0)
       \/ ("str" \in DOMAIN t[f] /\ t[f].str # "")

\* the first alias, in priority order, with a usable value; 0 when none
FirstUsable(t, order) ==
    LET good == {i \in DOMAIN order : Usable(t, order[i])}
    IN  IF good = {} THEN 0
        ELSE t[order[CHOOSE i \in good : \A j \in good : i <= j]].num

QuantityOrder == <<"quantity", "qty", "net_qty", "net_quantity">>
AveragePriceOrder == <<"average_price", "avg_price", "averageprice", "avg">>
LastPriceOrder == <<"last_price", "lastprice", "ltp", "last">>
UnbookedOrder == <<"unbooked_pnl", "unbookedpnl", "unbooked">>
BookedOrder == <<"booked_profit_loss", "bookedprofitloss", "booked_pnl", "bookedpnl">>

\* the occurrences of key k in the feed, in order
RECURSIVE Occurrences(_, _)
Occurrences(ts, k) ==
    IF ts = <<>> THEN <<>>
    ELSE (IF RawKey(Head(ts)) = k THEN <<Head(ts)>> ELSE <<>>) \o Occurrences(Tail(ts), k)

\* the last non-zero value of a field over the occurrences, else the first
LastNonZero(occ, order) ==
    LET nz == {i \in DOMAIN occ : FirstUsable(occ[i], order) # 0}
    IN  IF nz = {} THEN FirstUsable(occ[1], order)
        ELSE FirstUsable(occ[CHOOSE i \in nz : \A j \in nz : j <= i], order)

\* C3: each key of the feed maps to exactly one trade; quantity,
\* average_price and last_price are the last non-zero value seen for the key
\* (the first occurrence's value when no later one is non-zero), and the two
\* P&L fields are those of the last occurrence, zero included.
C3_MergeDuplicates ==
    (NormDone /\ ~norm.raised) =>
        LET ts == Listed(positions_data)
        IN  /\ DOMAIN norm.trades_map = {RawKey(ts[i]) : i \in DOMAIN ts}
            /\ \A k \in DOMAIN norm.trades_map :
                LET occ == Occurrences(ts, k)
                    t == norm.trades_map[k]
                IN  /\ t.quantity = LastNonZero(occ, QuantityOrder)
                    /\ t.average_price = LastNonZero(occ, AveragePriceOrder)
                    /\ t.last_price = LastNonZero(occ, LastPriceOrder)
                    /\ t.unbooked_pnl = FirstUsable(occ[Len(occ)], UnbookedOrder)
                    /\ t.booked_profit_loss = FirstUsable(occ[Len(occ)], BookedOrder)

\* C3 witness: a key listed three times, in two groups, whose last
\* occurrence is all zero: the quantity of an earlier occurrence stays and
\* the booked P&L ends as 0
C3_Witness ==
    /\ NormDone /\ ~norm.raised
    /\ Len(positions_data) = 2
    /\ \E k \in DOMAIN norm.trades_map :
        LET occ == Occurrences(Listed(positions_data), k)
        IN  /\ Len(occ) = 3
            /\ occ[1].booked_profit_loss = Num(2)
            /\ occ[2].quantity = Num(1)
            /\ occ[3].quantity = Num(0) /\ occ[3].booked_profit_loss = Num(0)
            /\ norm.trades_map[k].quantity = 1
            /\ norm.trades_map[k].booked_profit_loss = 0

\* net_qty = 5 with no quantity field yields quantity = 5
C4_Example ==
    LET r == normalize_trades_for_diff(
                <<[trades |-> List(<<[trading_symbol |-> Str("NIFTY24FEB25000PE"),
                                      product |-> Str("MIS"),
                                      net_qty |-> Num(5)]>>)]>>)
    IN  /\ ~r.raised
        /\ r.trades_map[<<"NIFTY24FEB25000PE", "MIS">>].quantity = 5

\* C4: for a key listed once, each normalized field is the value of the
\* first alias, in the fixed priority order, that is non-empty and non-zero,
\* and 0 when no alias has such a value.
C4_AliasPriority ==
    /\ C4_Example
    /\ (NormDone /\ ~norm.raised) =>
        LET ts == Listed(positions_data)
        IN  \A i \in DOMAIN ts :
                Len(Occurrences(ts, RawKey(ts[i]))) = 1 =>
                    LET t == norm.trades_map[RawKey(ts[i])]
                    IN  /\ t.quantity = FirstUsable(ts[i], QuantityOrder)
                        /\ t.average_price = FirstUsable(ts[i], AveragePriceOrder)
                        /\ t.last_price = FirstUsable(ts[i], LastPriceOrder)
                        /\ t.unbooked_pnl = FirstUsable(ts[i], UnbookedOrder)
                        /\ t.booked_profit_loss = FirstUsable(ts[i], BookedOrder)

\* C4 witness: a trade without a quantity field whose qty is 0 and whose
\* net_qty and net_quantity differ: the quantity is that of net_qty
C4_Witness ==
    /\ NormDone /\ ~norm.raised
    /\ Len(Listed(positions_data)) = 1
    /\ LET t == Listed(positions_data)[1]
       IN  /\ "quantity" \notin DOMAIN t
           /\ DOMAIN t = {"trading_symbol", "product", "qty", "net_qty", "net_quantity"}
           /\ t.qty = Num(0) /\ t.net_qty = Num(2) /\ t.net_quantity = Num(1)
           /\ norm.trades_map[RawKey(t)].quantity = 2

\* C5 as claimed: the call never raises; groups without trades (field
\* missing, null or empty) contribute nothing and every listed trade is
\* recorded, under its degenerate key when symbol or product is missing.
C5_NeverRaises ==
    NormDone =>
        /\ ~norm.raised
        /\ DOMAIN norm.trades_map =
              {RawKey(Listed(positions_data)[i]) : i \in DOMAIN Listed(positions_data)}

-----------------------------------------------------------------------------
(* Properties of calculate_diff, stated over the arguments as passed       *)
(* (call_prev, call_curr, historical_trades) and the returned lists        *)

DiffDone == pc = "diff_done"
CallKeys == DOMAIN call_prev \cup DOMAIN call_curr
EntryKey(e) == KeyOf(e.trading_symbol, e.product)
Occ(list, k) == Cardinality({i \in DOMAIN list : EntryKey(list[i]) = k})
EntriesOf(list, k) == {list[i] : i \in {j \in DOMAIN list : EntryKey(list[j]) = k}}
OnlyCurr(k) == k \notin DOMAIN call_prev /\ k \in DOMAIN call_curr
OnlyPrev(k) == k \in DOMAIN call_prev /\ k \notin DOMAIN call_curr
InBoth(k) == k \in DOMAIN call_prev /\ k \in DOMAIN call_curr

\* one trade map {K1: trade}
One(q, a, l, b) == MapPut(EmptyMap, K1, Trade(K1[1], K1[2], q, a, l, 0, b))

\* C1: every key of prev or curr is in at most one of added / removed /
\* modified: in added iff only in curr, in removed iff only in prev, in
\* modified iff in both with different quantities, and in no list iff in
\* both with equal quantities, whatever the price and P&L fields are.
C1_DiffPartition ==
    DiffDone =>
        /\ \A k \in CallKeys :
            /\ Occ(diff.added, k) + Occ(diff.removed, k) + Occ(diff.modified, k) <= 1
            /\ Occ(diff.added, k) = 1 <=> OnlyCurr(k)
            /\ Occ(diff.removed, k) = 1 <=> OnlyPrev(k)
            /\ Occ(diff.modified, k) = 1 <=>
                  (InBoth(k) /\ call_prev[k].quantity # call_curr[k].quantity)
            /\ (Occ(diff.added, k) + Occ(diff.removed, k) + Occ(diff.modified, k) = 0)
                  <=> (InBoth(k) /\ call_prev[k].quantity = call_curr[k].quantity)
        /\ \A i \in DOMAIN diff.added : EntryKey(diff.added[i]) \in CallKeys
        /\ \A i \in DOMAIN diff.removed : EntryKey(diff.removed[i]) \in CallKeys
        /\ \A i \in DOMAIN diff.modified : EntryKey(diff.modified[i]) \in CallKeys

\* C1 witness: K1 is in both maps with the same quantity but another average
\* price and unbooked P&L and is in no list, while K2 is added
C1_Witness ==
    /\ DiffDone
    /\ InBoth(K1) /\ OnlyCurr(K2)
    /\ call_prev[K1].quantity = call_curr[K1].quantity
    /\ call_prev[K1].average_price # call_curr[K1].average_price
    /\ call_prev[K1].unbooked_pnl # call_curr[K1].unbooked_pnl
    /\ Len(diff.added) = 1 /\ diff.removed = <<>> /\ diff.modified = <<>>

\* C2: diffing a snapshot against itself yields three empty lists.
C2_SelfDiffEmpty ==
    (DiffDone /\ call_prev = call_curr) =>
        (diff.added = <<>> /\ diff.removed = <<>> /\ diff.modified = <<>>)

\* C2 witness: a snapshot of two keys has been diffed against itself
C2_Witness ==
    /\ DiffDone
    /\ call_prev = call_curr
    /\ DOMAIN call_prev = {K1, K2}

\* prev's average price, taken from historical_trades when it is zero
PrevAvg(k) ==
    IF call_prev[k].average_price # 0 THEN call_prev[k].average_price
    ELSE IF k \in DOMAIN historical_trades THEN historical_trades[k].average_price
    ELSE 0

\* |(curr.avg * curr.qty - prevAvg * prev.qty) / (curr.qty - prev.qty)|,
\* 0 when either average price is zero
ValueDeltaPrice(k) ==
    LET q0 == call_prev[k].quantity
        q1 == call_curr[k].quantity
        a0 == PrevAvg(k)
        a1 == call_curr[k].average_price
    IN  IF a0 = 0 \/ a1 = 0 THEN RZero
        ELSE RAbs(Frac(a1 * q1 - a0 * q0, q1 - q0))

FillSideAndQty(e, k) ==
    LET dq == call_curr[k].quantity - call_prev[k].quantity
    IN  /\ e.implied_fill_side = (IF dq > 0 THEN "BUY" ELSE "SELL")
        /\ e.implied_fill_qty = Abs(dq)

\* 10 @ 100 -> 15 @ 110 reports BUY 5 @ 130
C6_Example ==
    LET r == calculate_diff(One(10, 100, 0, 0), One(15, 110, 0, 0), EmptyMap, <<K1>>)
    IN  /\ Len(r.modified) = 1
        /\ r.modified[1].implied_fill_price = R(130)
        /\ r.modified[1].implied_fill_side = "BUY"
        /\ r.modified[1].implied_fill_qty = 5

Shrinks(k) ==
    LET q0 == call_prev[k].quantity
        q1 == call_curr[k].quantity
    IN  (q0 > 0 /\ q1 < q0) \/ (q0 < 0 /\ q1 > q0)

\* curr's last price, else prev's
LastTraded(k) ==
    IF call_curr[k].last_price # 0 THEN call_curr[k].last_price
    ELSE call_prev[k].last_price

\* a reducing leg with broker-booked P&L and a known entry price
BrokerBookedCase(k) ==
    Shrinks(k) /\ call_curr[k].booked_profit_loss # 0 /\ PrevAvg(k) # 0

\* a fully closed leg without broker-booked P&L whose value-delta price is
\* within 0.01 of the entry price, with a positive last price
LtpCase(k) ==
    /\ Shrinks(k) /\ call_curr[k].booked_profit_loss = 0
    /\ call_curr[k].quantity = 0
    /\ ValueDeltaPrice(k) # RZero
    /\ RLt(RAbs(RSub(ValueDeltaPrice(k), R(PrevAvg(k)))), Frac(1, 100))
    /\ LastTraded(k) > 0

\* entry + booked/closed for a long leg, entry - booked/closed for a short
BackDerivedExit(k) ==
    LET q0 == call_prev[k].quantity
        closed == Abs(q0 - call_curr[k].quantity)
        per == Frac(call_curr[k].booked_profit_loss, closed)
    IN  IF q0 > 0 THEN RAdd(R(PrevAvg(k)), per) ELSE RSub(R(PrevAvg(k)), per)

Backfilled(k, f) ==
    LET p == call_prev[k]
    IN  IF p[f] = 0 /\ (p.quantity = 0 \/ p.average_price = 0)
           /\ k \in DOMAIN historical_trades
        THEN historical_trades[k][f]
        ELSE p[f]

\* long 10 @ 100 with last price 120 and no booked P&L, gone from curr
C7_Example ==
    LET r == calculate_diff(One(10, 100, 120, 0), EmptyMap, EmptyMap, <<K1>>)
    IN  /\ Len(r.removed) = 1
        /\ r.removed[1].exit_pnl = R(200)
        /\ r.removed[1].exit_price = R(120)

\* C7: every removed entry has exit_price = the previous trade's last price
\* after backfill, and exit_pnl = booked_pnl = prev.booked_profit_loss when
\* non-zero, else (exit_price - average_price) * original_quantity when the
\* three are non-zero, else 0.
C7_RemovedExit ==
    /\ C7_Example
    /\ DiffDone =>
        \A i \in DOMAIN diff.removed :
            LET e == diff.removed[i]
                k == EntryKey(e)
                qty == Backfilled(k, "quantity")
                avg == Backfilled(k, "average_price")
                last == Backfilled(k, "last_price")
                booked == call_prev[k].booked_profit_loss
                pnl == IF booked # 0 THEN booked
                       ELSE IF qty # 0 /\ avg # 0 /\ last # 0
                            THEN (last - avg) * qty
                            ELSE 0
            IN  /\ e.exit_price = R(last)
                /\ e.exit_pnl = R(pnl)
                /\ e.booked_pnl = R(pnl)
                /\ e.original_quantity = qty

\* C7 witness: a short leg -2 @ 3 last seen at 2 without booked P&L is
\* removed with the estimate (2 - 3) * -2 = 2
C7_Witness ==
    /\ DiffDone
    /\ OnlyPrev(K1)
    /\ call_prev[K1].quantity = -2 /\ call_prev[K1].average_price = 3
    /\ call_prev[K1].last_price = 2 /\ call_prev[K1].booked_profit_loss = 0
    /\ Len(diff.removed) = 1
    /\ diff.removed[1].exit_pnl = R(2)
    /\ diff.removed[1].exit_price = R(2)

\* C8 as claimed: a short leg that curr lists with quantity 0, without
\* broker-booked P&L and with a last price, is reported in modified with
\* exit_pnl = (prev.average_price - last_price) * |prev.quantity|.
C8_ShortClose ==
    DiffDone =>
        \A k \in CallKeys :
            (/\ InBoth(k)
             /\ call_prev[k].quantity < 0 /\ call_prev[k].average_price # 0
             /\ call_curr[k].quantity = 0 /\ call_curr[k].booked_profit_loss = 0
             /\ LastTraded(k) > 0)
            => \E e \in EntriesOf(diff.modified, k) :
                  e.exit_pnl = R((call_prev[k].average_price - LastTraded(k))
                                 * Abs(call_prev[k].quantity))

-----------------------------------------------------------------------------
(* Properties of the lifecycle replay, stated over the request, the          *)
(* snapshots read so far and the events emitted for them                     *)

ReplayRunning == pc \in {"replay_loop", "replay_done"}
ReplayKeys == {K1, K2, K3}
SnapIds == 1..Len(snapshots)

\* the normalized trades of the i-th snapshot, empty when it cannot be decoded
SnapMap(i) == normalize_trades_for_diff(Decode(snapshots[i]).data).trades_map
TradeAt(i, k) == Get(SnapMap(i), k, NoTrade)
AllDecoded == \A i \in SnapIds : Decode(snapshots[i]).ok

\* the key is listed in the i-th snapshot with a non-zero quantity
Held(i, k) == i \in SnapIds /\ k \in DOMAIN SnapMap(i) /\ SnapMap(i)[k].quantity # 0

\* the key passes the filter of the request
Selected(k) ==
    IF request.endpoint = "all_underlyings"
    THEN request.underlying = "" \/ get_underlying(k[1]) = request.underlying
    ELSE /\ Upper(k[1]) = Upper(request.symbol)
         /\ request.product = "" \/ k[2] = request.product

\* the events emitted for key k at snapshot i, as positions in the list
\* that holds them
EventList(k) ==
    IF request.endpoint = "all_underlyings"
    THEN Get(underlying_events, get_underlying(k[1]), <<>>)
    ELSE events
EventsAt(i, k) ==
    {j \in DOMAIN EventList(k) :
        LET e == EventList(k)[j]
        IN  /\ e.snapshot_id = i
            /\ e.product = k[2]
            /\ e.symbol = (IF request.endpoint = "all_underlyings" THEN k[1]
                           ELSE Upper(k[1]))}
TypesAt(i, k) == {EventList(k)[j].type : j \in EventsAt(i, k)}

\* what the rule of the claim asks for key k at snapshot i
ExpectedTypes(i, k) ==
    LET was == Held(i - 1, k)
        is == Held(i, k)
    IN  IF ~was /\ is THEN {"ENTERED"}
        ELSE IF was /\ ~is THEN {"EXITED"}
        ELSE IF was /\ is /\ SnapMap(i - 1)[k].quantity # SnapMap(i)[k].quantity
        THEN {"MODIFIED"}
        ELSE {}

EventsFollowRule(keys) ==
    (ReplayRunning /\ AllDecoded) =>
        \A i \in SnapIds : \A k \in keys :
            IF Selected(k)
            THEN /\ TypesAt(i, k) = ExpectedTypes(i, k)
                 /\ Cardinality(EventsAt(i, k)) <= 1
            ELSE EventsAt(i, k) = {}

\* C9: in a replay whose snapshots all decode, each key selected by the
\* filter gets an event at a snapshot exactly when its presence changes
\* (ENTERED, EXITED) or it stays present with another quantity (MODIFIED),
\* one event each, and no other event is emitted.
C9_LifecycleEvents == EventsFollowRule(ReplayKeys)

\* C9, where it fails: the per-symbol replay has selected a key whose stored
\* symbol is not in upper case and emitted ENTERED for it, the key is then
\* gone from the next snapshot, and no EXITED is emitted.
C9_Witness ==
    /\ pc = "replay_done"
    /\ request.endpoint = "symbol_lifecycle"
    /\ Len(snapshots) >= 2
    /\ AllDecoded
    /\ Held(1, K3) /\ ~Held(2, K3)
    /\ TypesAt(1, K3) = {"ENTERED"}
    /\ TypesAt(2, K3) = {}

\* C9 for the keys stored in upper case: the rule holds for them in both
\* endpoints; quantities 0, q, q, 0 give ENTERED at the second snapshot and
\* EXITED at the fourth.
C9_UpperCaseKeys == EventsFollowRule({K1, K2})


\* the snapshots the loop of the endpoint processes: the per-underlying
\* replay skips a payload it cannot decode, the per-symbol replay reads it
\* as an empty snapshot
Processed(i) == request.endpoint = "symbol_lifecycle" \/ Decode(snapshots[i]).ok
Latest(S) == CHOOSE j \in S : \A x \in S : x <= j

\* the last recorded trade of key k before snapshot i, and the most recent
\* good trade of k before snapshot i (the two may be one trade)
Before(i) == {j \in 1..(i - 1) : Processed(j)}
LastRecorded(i, k) == IF Before(i) = {} THEN NoTrade ELSE TradeAt(Latest(Before(i)), k)
GoodBefore(i, k, S) ==
    LET g == {j \in S : IsGood(TradeAt(j, k))}
    IN  IF g = {} THEN NoTrade ELSE TradeAt(Latest(g), k)
LastGood(i, k) == GoodBefore(i, k, Before(i))
EarlierGood(i, k) ==
    GoodBefore(i, k, IF Before(i) = {} THEN {} ELSE Before(i) \ {Latest(Before(i))})

\* the exit figures of a trade whose zero average price and zero last price
\* are replaced by those of the good trade g: <<before_average_price,
\* exit_price, exit_pnl>>
PatchedExit(l, g) ==
    LET avg_p == IF l.average_price # 0 THEN l.average_price ELSE Get(g, "average_price", 0)
        last_p == IF l.last_price # 0 THEN l.last_price ELSE Get(g, "last_price", 0)
    IN  <<avg_p, last_p,
          IF l.booked_profit_loss # 0 THEN l.booked_profit_loss
          ELSE IF avg_p # 0 /\ last_p # 0 THEN (last_p - avg_p) * l.quantity
          ELSE 0>>

ExitFigures(e) == <<e.before_average_price, e.exit_price, e.exit_pnl>>

\* the EXITED events of key k at snapshot i
ExitsAt(i, k) == {EventList(k)[j] : j \in {x \in EventsAt(i, k) : EventList(k)[x].type = "EXITED"}}

\* C10 as stated: an EXITED event of a key whose last recorded trade has a
\* zero average price or a zero last price, while an earlier snapshot held a
\* good trade of the key, takes its exit_price and exit_pnl from the last
\* recorded trade with each zero replaced by the value of that earlier good
\* trade.
C10_Original ==
    ReplayRunning =>
        \A i \in SnapIds : \A k \in ReplayKeys : \A e \in ExitsAt(i, k) :
            LET l == LastRecorded(i, k)
                g == EarlierGood(i, k)
            IN  (IsTrade(l) /\ IsTrade(g) /\ (l.average_price = 0 \/ l.last_price = 0))
                    => ExitFigures(e) = PatchedExit(l, g)

\* C10, amended: the zeros of the last recorded trade are replaced from the
\* most recent good trade up to and including the last recorded trade
\* itself.  So a zero average price is replaced by the average price of the
\* earlier good trade (and with it a zero last price), while a zero last
\* price next to a non-zero average price stays zero: exit_price is then 0.
C10_Backfill ==
    ReplayRunning =>
        \A i \in SnapIds : \A k \in ReplayKeys : \A e \in ExitsAt(i, k) :
            LET l == LastRecorded(i, k)
                g == LastGood(i, k)
            IN  /\ IsTrade(l)
                /\ ExitFigures(e) = PatchedExit(l, g)
                /\ (l.average_price = 0 /\ IsTrade(g))
                      => /\ e.before_average_price = g.average_price
                         /\ e.before_average_price # 0
                /\ (l.average_price # 0 /\ l.last_price = 0)
                      => e.exit_price = 0 /\ e.exit_pnl = l.booked_profit_loss

\* C10: the replay has returned an EXITED event of a key whose last recorded
\* trade had a zero average price and a zero last price and whose earlier
\* good trade had neither: the event carries the good trade's prices.
C10_Witness ==
    /\ pc = "replay_done"
    /\ \E i \in SnapIds : \E e \in ExitsAt(i, K1) :
          LET l == LastRecorded(i, K1)
              g == LastGood(i, K1)
          IN  /\ IsTrade(l) /\ l.average_price = 0 /\ l.last_price = 0
              /\ IsTrade(g) /\ g.last_price # 0
              /\ e.before_average_price = g.average_price
              /\ e.exit_price = g.last_price
              /\ e.exit_pnl = (g.last_price - g.average_price) * l.quantity
              /\ e.exit_pnl # 0



-----------------------------------------------------------------------------
(* The replay of the snapshots read so far under another filter, computed   *)
(* with the operators of the endpoints                                      *)

\* api_profile_all_underlyings over snaps[i..], from acc, under the filter
RECURSIVE UnderlyingsReplay(_, _, _, _)
UnderlyingsReplay(acc, snaps, i, underlying_filter) ==
    IF i > Len(snaps) THEN acc
    ELSE LET raw == Decode(snaps[i])
             n == normalize_trades_for_diff(raw.data)
         IN  UnderlyingsReplay(
                 IF ~raw.ok THEN acc
                 ELSE UnderlyingsLoop(acc,
                                      SeqOfSet(DOMAIN n.trades_map \cup DOMAIN acc.state),
                                      n.trades_map, i, underlying_filter),
                 snaps, i + 1, underlying_filter)

\* api_profile_symbol_lifecycle over snaps[i..], from acc, for the symbol
\* and the product filter
RECURSIVE LifecycleReplay(_, _, _, _, _)
LifecycleReplay(acc, snaps, i, symbol_norm, product_filter) ==
    IF i > Len(snaps) THEN acc
    ELSE LET n == normalize_trades_for_diff(Decode(snaps[i]).data)
         IN  LifecycleReplay(
                 LifecycleLoop(acc,
                               SeqOfSet(MatchingListed(n.trades_map, symbol_norm,
                                                       product_filter))
                               \o SeqOfSet(MatchingGone(acc.state, n.trades_map,
                                                        symbol_norm, product_filter)),
                               n.trades_map, i, symbol_norm),
                 snaps, i + 1, symbol_norm, product_filter)

Unfiltered ==
    IF request.endpoint = "all_underlyings"
    THEN UnderlyingsReplay([state |-> EmptyMap, events |-> EmptyMap], snapshots, 1, "")
    ELSE LifecycleReplay([state |-> EmptyMap, events |-> <<>>], snapshots, 1,
                         Upper(request.symbol), "")

\* the events of key k in a list of events, in the order of the list
EventsOfKey(evs, k) ==
    SelectSeq(evs, LAMBDA e : e.product = k[2]
                              /\ e.symbol = (IF request.endpoint = "all_underlyings"
                                             THEN k[1] ELSE Upper(k[1])))

\* the events of key k in the unfiltered replay, as the endpoint holds them
\* at this point: in the order emitted, or sorted once it has returned
UnfilteredOfKey(k) ==
    LET evs == IF request.endpoint = "all_underlyings"
               THEN Get(Unfiltered.events, get_underlying(k[1]), <<>>)
               ELSE Unfiltered.events
    IN  EventsOfKey(IF pc = "replay_done" THEN SortLatestFirst(evs) ELSE evs, k)

Filtering == request.underlying # "" \/ request.product # ""

\* C11: a replay run with a filter emits for every key the filter selects
\* exactly the events, in the same order and with the same fields, that the
\* replay without the filter emits for that key; and the per-underlying
\* replay holds for every key, rejected or not, the state (present,
\* last_trade, last_good_trade) that the replay without the filter holds.
C11_FilterIndependent ==
    (ReplayRunning /\ Filtering) =>
        /\ \A k \in ReplayKeys :
              Selected(k) => EventsOfKey(EventList(k), k) = UnfilteredOfKey(k)
        /\ request.endpoint = "all_underlyings" => state = Unfiltered.state

\* C11: a filtered per-underlying replay has returned events for a key of
\* its underlying after a key of another underlying came and went, and a
\* rejected key is tracked as present.
C11_Witness ==
    /\ pc = "replay_done"
    /\ request.underlying = "NIFTY"
    /\ Len(snapshots) >= 3
    /\ Cardinality(EventsAt(2, K1)) = 1
    /\ Held(1, K2) /\ ~Held(2, K2) /\ Held(3, K2)
    /\ K2 \in DOMAIN state /\ state[K2].present
    /\ EventsAt(1, K2) = {}


-----------------------------------------------------------------------------
(* Properties of get_daily_pnl_metrics, stated over the tables, the query    *)
(* and the returned metrics                                                  *)

PnlDone == pc = "pnl_done"

\* the trades of a payload, group after group, and the sum of one of their
\* fields (a missing field counts 0)
RECURSIVE TradesOfGroups(_)
TradesOfGroups(groups) ==
    IF groups = <<>> THEN <<>>
    ELSE (IF "trades" \in DOMAIN Head(groups) THEN Head(groups).trades.list ELSE <<>>)
         \o TradesOfGroups(Tail(groups))
RECURSIVE SumField(_, _)
SumField(ts, f) ==
    IF ts = <<>> THEN 0
    ELSE (IF f \in DOMAIN Head(ts) THEN Head(ts)[f].num ELSE 0) + SumField(Tail(ts), f)
Unbooked(raw) == SumField(TradesOfGroups(raw.data), "unbooked_pnl")
Booked(raw) == SumField(TradesOfGroups(raw.data), "booked_profit_loss")

\* the recorded snapshots before the date and on the date
RecordedBefore == {r \in Rows(db.snapshots) : DateOf(r.timestamp) < query.date}
RecordedOn == {r \in Rows(db.snapshots) : DateOf(r.timestamp) = query.date}
Newest(rows) == CHOOSE r \in rows : \A x \in rows : x.id <= r.id
Oldest(rows) == CHOOSE r \in rows : \A x \in rows : x.id >= r.id

-----------------------------------------------------------------------------
(* calculate_diff and the maps it is given *)

\* C14: calculate_diff leaves every trade record of prev_map and curr_map as
\* it was given (no field added or overwritten), and a second call on the
\* same maps returns the entries the first call returned.
C14_Pure ==
    DiffDone =>
        /\ prev_map = call_prev
        /\ curr_map = call_curr
        /\ \A order \in Orders(DOMAIN prev_map \cup DOMAIN curr_map) :
              LET again == calculate_diff(prev_map, curr_map, historical_trades, order)
              IN  /\ Range(again.added) = Range(diff.added)
                  /\ Range(again.removed) = Range(diff.removed)
                  /\ Range(again.modified) = Range(diff.modified)

\* C14, where it fails: after the call the entry of curr_map carries the
\* average price of prev, and a second call reports another implied fill
\* price than the first.
C14_Witness ==
    /\ DiffDone
    /\ K1 \in DOMAIN call_curr /\ K1 \in DOMAIN call_prev
    /\ call_curr[K1].average_price = 0
    /\ curr_map[K1].average_price = call_prev[K1].average_price
    /\ curr_map[K1].average_price # 0
    /\ \E order \in Orders(DOMAIN prev_map \cup DOMAIN curr_map) :
          Range(calculate_diff(prev_map, curr_map, historical_trades, order).modified)
              # Range(diff.modified)


\* the entries of removed and of modified
RemovedAndModified == Range(diff.removed) \cup Range(diff.modified)

\* C15: in every removed and modified entry original_quantity and
\* original_average_price are prev's values when those are non-zero; a zero
\* one is replaced by historical's value for the key, field by field; with
\* no historical entry both stay prev's.  The last price is replaced only
\* when it is zero and prev's quantity or average price is zero: otherwise
\* a removed entry's exit_price is prev's last price.
C15_OriginalValues ==
    DiffDone =>
        \A e \in RemovedAndModified :
            LET k == EntryKey(e)
                p == call_prev[k]
                known == k \in DOMAIN historical_trades
            IN  /\ p.quantity # 0 => e.original_quantity = p.quantity
                /\ p.average_price # 0 => e.original_average_price = p.average_price
                /\ ~known => /\ e.original_quantity = p.quantity
                             /\ e.original_average_price = p.average_price
                /\ (known /\ p.quantity = 0)
                      => e.original_quantity = historical_trades[k].quantity
                /\ (known /\ p.average_price = 0)
                      => e.original_average_price = historical_trades[k].average_price
                /\ e \in Range(diff.removed) =>
                      e.exit_price =
                          R(IF p.last_price = 0 /\ known
                               /\ (p.quantity = 0 \/ p.average_price = 0)
                            THEN historical_trades[k].last_price
                            ELSE p.last_price)

\* C15: a removed entry whose prev has quantity 0 and a non-zero average
\* price, with a historical entry of another average price: the quantity
\* comes from historical, the average price stays prev's.
C15_Witness ==
    /\ DiffDone
    /\ \E e \in Range(diff.removed) :
          LET k == EntryKey(e)
              p == call_prev[k]
          IN  /\ k \in DOMAIN historical_trades
              /\ p.quantity = 0 /\ p.average_price # 0
              /\ historical_trades[k].quantity # 0
              /\ historical_trades[k].average_price # p.average_price
              /\ e.original_quantity = historical_trades[k].quantity
              /\ e.original_average_price = p.average_price


\* the keys prev holds with a quantity and curr still lists with quantity 0
FlatInCurr ==
    {k \in DOMAIN call_prev \cap DOMAIN call_curr :
        call_prev[k].quantity # 0 /\ call_curr[k].quantity = 0}

\* C16: a leg that prev holds and curr still lists with quantity 0 is
\* reported in removed, with booked_pnl = prev.booked_profit_loss or, when
\* that is zero, curr[key].booked_profit_loss.
C16_TransientZero ==
    DiffDone =>
        \A k \in FlatInCurr :
            /\ Occ(diff.removed, k) = 1
            /\ \A e \in EntriesOf(diff.removed, k) :
                  e.booked_pnl = R(IF call_prev[k].booked_profit_loss # 0
                                   THEN call_prev[k].booked_profit_loss
                                   ELSE call_curr[k].booked_profit_loss)

\* C16, where it fails: such a leg, with booked P&L reported by curr only,
\* is in modified and not in removed.
C16_Witness ==
    /\ DiffDone
    /\ \E k \in FlatInCurr :
          /\ call_prev[k].booked_profit_loss = 0
          /\ call_curr[k].booked_profit_loss # 0
          /\ Occ(diff.removed, k) = 0
          /\ Occ(diff.modified, k) = 1


\* the modified entries that calculate_diff treats as reducing
ReducingEntries ==
    {e \in Range(diff.modified) :
        IsReducing(call_prev[EntryKey(e)].quantity, call_curr[EntryKey(e)].quantity)}

\* C17: whenever a modified leg is treated as reducing its magnitude shrinks
\* toward flat: |curr.quantity| < |prev.quantity|, and the closed quantity
\* |prev.quantity - curr.quantity| does not exceed |prev.quantity|.
C17_ReducingShrinks ==
    DiffDone =>
        \A e \in ReducingEntries :
            LET q0 == call_prev[EntryKey(e)].quantity
                q1 == call_curr[EntryKey(e)].quantity
            IN  /\ Abs(q1) < Abs(q0)
                /\ Abs(q0 - q1) <= Abs(q0)

\* C17, where it fails: a long leg that flips to a short one of at least
\* its size is treated as reducing and gets a booked P&L over a closed
\* quantity larger than the position.
C17_Witness ==
    /\ DiffDone
    /\ \E e \in ReducingEntries :
          LET q0 == call_prev[EntryKey(e)].quantity
              q1 == call_curr[EntryKey(e)].quantity
          IN  /\ q0 > 0 /\ q1 < 0 /\ Abs(q1) >= Abs(q0)
              /\ e.implied_fill_qty > Abs(q0)
              /\ e.booked_pnl # RZero


\* the reducing entries for which curr reports booked P&L, and the others
BrokerBooked == {e \in ReducingEntries : call_curr[EntryKey(e)].booked_profit_loss # 0}
Estimated == ReducingEntries \ BrokerBooked

\* C18: a reducing modified leg whose curr.booked_profit_loss is non-zero
\* reports booked_pnl = exit_pnl = curr.booked_profit_loss, and with a
\* non-zero entry price (prev's average price after backfill) exit_price =
\* entry + booked/closed for a long leg and entry - booked/closed for a
\* short one, closed being |prev.quantity - curr.quantity|.
C18_BrokerBooked ==
    DiffDone =>
        \A e \in BrokerBooked :
            LET k == EntryKey(e)
                q0 == call_prev[k].quantity
                closed == Abs(q0 - call_curr[k].quantity)
                booked == call_curr[k].booked_profit_loss
                entry == PrevAvg(k)
            IN  /\ e.booked_pnl = R(booked)
                /\ e.exit_pnl = R(booked)
                /\ entry # 0 =>
                      e.exit_price = (IF q0 > 0 THEN Frac(entry * closed + booked, closed)
                                      ELSE Frac(entry * closed - booked, closed))

\* C18: a short leg reduced by one, with booked P&L and a known entry price,
\* reports an exit price below its entry price by booked/closed.
C18_Witness ==
    /\ DiffDone
    /\ \E e \in BrokerBooked :
          LET k == EntryKey(e)
          IN  /\ call_prev[k].quantity = -2 /\ call_curr[k].quantity = -1
              /\ call_prev[k].average_price # 0
              /\ e.exit_price = R(call_prev[k].average_price
                                  - call_curr[k].booked_profit_loss)
              /\ e.booked_pnl = R(call_curr[k].booked_profit_loss)


\* C19: a reducing modified leg whose curr.booked_profit_loss is zero takes
\* the implied fill price as exit price, or the last traded price (curr's,
\* else prev's) when that is positive, the leg is fully closed and the
\* implied price equals the entry price; booked_pnl = exit_pnl =
\* (exit - entry) * closed for a long leg and (entry - exit) * closed for a
\* short one; all three are 0 when the entry price or the exit price is 0.
C19_EstimatedExit ==
    DiffDone =>
        \A e \in Estimated :
            LET k == EntryKey(e)
                q0 == call_prev[k].quantity
                q1 == call_curr[k].quantity
                closed == Abs(q0 - q1)
                entry == PrevAvg(k)
                implied == ValueDeltaPrice(k)
                exit == IF q1 = 0 /\ implied = R(entry) /\ LastTraded(k) > 0
                        THEN R(LastTraded(k)) ELSE implied
                pnl == IF q0 > 0
                       THEN Frac((exit.n - entry * exit.d) * closed, exit.d)
                       ELSE Frac((entry * exit.d - exit.n) * closed, exit.d)
            IN  IF entry = 0 \/ exit = RZero
                THEN e.booked_pnl = RZero /\ e.exit_pnl = RZero /\ e.exit_price = RZero
                ELSE e.booked_pnl = pnl /\ e.exit_pnl = pnl /\ e.exit_price = exit

\* C19: a fully closed leg without booked P&L whose flat entry still has an
\* average price: the exit price is the last traded price, not the implied
\* price (which equals the entry price), and the booked P&L is not zero.
C19_Witness ==
    /\ DiffDone
    /\ \E e \in Estimated :
          LET k == EntryKey(e)
          IN  /\ call_curr[k].quantity = 0
              /\ call_curr[k].average_price # 0
              /\ ValueDeltaPrice(k) = R(PrevAvg(k))
              /\ e.exit_price = R(LastTraded(k))
              /\ e.exit_price # R(PrevAvg(k))
              /\ e.booked_pnl # RZero


-----------------------------------------------------------------------------
(* Properties of the historical map api_diff and daily_log pass to          *)
(* calculate_diff                                                           *)

\* the map is complete: the loop over all_prev_snapshots has ended and
\* calculate_diff is about to be called with it
HistBuilt ==
    /\ pc = "hist_loop"
    /\ cursor = Len(all_prev_snapshots(db, ChangeInHand.snapshot_id))

\* the snapshots of the profile before the current one
Earlier == {r \in Rows(db.snapshots) : r.id < ChangeInHand.snapshot_id}

\* the snapshots before the current one in which key has both a quantity
\* and an average price
GoodRows(key) ==
    {r \in Earlier : /\ key \in DOMAIN TradesOfRow(r)
                     /\ TradesOfRow(r)[key].quantity # 0
                     /\ TradesOfRow(r)[key].average_price # 0}

EarliestGood(key) ==
    TradesOfRow(CHOOSE r \in GoodRows(key) : \A x \in GoodRows(key) : r.id <= x.id)[key]

HistKeys == UNION {DOMAIN TradesOfRow(r) : r \in Earlier}

\* C20: the historical map passed to calculate_diff maps each key to the
\* earliest trade of that key, among the snapshots before the current one,
\* with non-zero quantity and non-zero average price, and holds no entry
\* with a zero quantity or a zero average price.
C20_EarliestGood ==
    HistBuilt =>
        /\ DOMAIN historical_trades = {k \in HistKeys : GoodRows(k) # {}}
        /\ \A k \in DOMAIN historical_trades :
              /\ historical_trades[k] = EarliestGood(k)
              /\ historical_trades[k].quantity # 0
              /\ historical_trades[k].average_price # 0

\* C20: a complete map for a key that was held at two different prices
\* before the current snapshot
C20_Witness ==
    /\ HistBuilt
    /\ \E k \in DOMAIN historical_trades :
          \E r1 \in GoodRows(k) : \E r2 \in GoodRows(k) :
              TradesOfRow(r1)[k] # TradesOfRow(r2)[k]


-----------------------------------------------------------------------------
(* Properties of the state the replay keeps for each key                     *)

\* the snapshots processed so far in which key k has both a quantity and an
\* average price
GoodSoFar(k) ==
    {j \in SnapIds : /\ Processed(j)
                     /\ k \in DOMAIN SnapMap(j)
                     /\ SnapMap(j)[k].quantity # 0
                     /\ SnapMap(j)[k].average_price # 0}

\* C21: after any prefix of a replay, the last_good_trade of each tracked
\* key is null iff no processed trade of the key had both a non-zero
\* quantity and a non-zero average price, and is otherwise the most recent
\* such trade; a trade with a zero quantity or average price never
\* replaces it.
C21_LastGoodTrade ==
    ReplayRunning =>
        \A k \in DOMAIN state :
            /\ ~IsTrade(state[k].last_good_trade) <=> GoodSoFar(k) = {}
            /\ GoodSoFar(k) # {} =>
                  state[k].last_good_trade = SnapMap(Latest(GoodSoFar(k)))[k]

\* C21: a tracked key whose last recorded trade has a zero average price
\* and came after a good trade, which is still the last_good_trade
C21_Witness ==
    /\ ReplayRunning
    /\ \E k \in DOMAIN state :
          /\ IsTrade(state[k].last_trade)
          /\ state[k].last_trade.quantity # 0
          /\ state[k].last_trade.average_price = 0
          /\ IsTrade(state[k].last_good_trade)
          /\ state[k].last_good_trade # state[k].last_trade
          /\ Latest(GoodSoFar(k)) < Len(snapshots)


\* the snapshots after the i-th that the loop has read and that hold key k
HeldAfter(i, k) == {j \in SnapIds : j > i /\ Processed(j) /\ Held(j, k)}
Earliest(S) == CHOOSE j \in S : \A x \in S : j <= x

\* what holds of a key after each of its EXITED events: it is tracked, not
\* present until it is held again, ENTERED is emitted where it is held
\* again, and the good trade recorded before the exit is the last_good_trade
\* until a later good trade takes its place
TrackedAfterExit ==
    ReplayRunning =>
        \A k \in ReplayKeys : \A i \in SnapIds :
            ExitsAt(i, k) # {} =>
                /\ k \in DOMAIN state
                /\ HeldAfter(i, k) = {} => ~state[k].present
                /\ HeldAfter(i, k) # {} => TypesAt(Earliest(HeldAfter(i, k)), k) = {"ENTERED"}
                /\ IsTrade(LastGood(i, k)) =>
                      /\ IsTrade(state[k].last_good_trade)
                      /\ {j \in GoodSoFar(k) : j >= i} = {} =>
                            state[k].last_good_trade = LastGood(i, k)

-----------------------------------------------------------------------------
(* Properties of the events the replay emits                                 *)

\* the events of a type emitted for key k at snapshot i
EventsOfType(i, k, type) ==
    {EventList(k)[j] : j \in {x \in EventsAt(i, k) : EventList(k)[x].type = type}}

\* the value-delta fill of an event: <<side, qty, price>> from its
\* quantities and average prices
ValueDeltaFill(e) ==
    LET dq == e.after_quantity - e.before_quantity
    IN  <<IF dq > 0 THEN "BUY" ELSE IF dq < 0 THEN "SELL" ELSE "",
          Abs(dq),
          IF dq # 0 /\ e.before_average_price # 0 /\ e.after_average_price # 0
          THEN RAbs(Frac(e.after_average_price * e.after_quantity
                           - e.before_average_price * e.before_quantity, dq))
          ELSE RZero>>

\* the change of the event is a reduction
Reduction(e) ==
    \/ e.before_quantity > 0 /\ e.after_quantity < e.before_quantity
    \/ e.before_quantity < 0 /\ e.after_quantity > e.before_quantity

\* C23: in both replay endpoints a MODIFIED event carries the implied fill
\* of the value-delta formula; when the change is a reduction it also
\* carries the exit_pnl and exit_price of the backfilled previous trade,
\* and otherwise exit_pnl = 0 and exit_price = 0.
C23_ModifiedEvents ==
    ReplayRunning =>
        \A i \in SnapIds : \A k \in ReplayKeys : \A e \in EventsOfType(i, k, "MODIFIED") :
            /\ <<e.implied_fill_side, e.implied_fill_qty, e.implied_fill_price>>
                  = ValueDeltaFill(e)
            /\ IF Reduction(e)
               THEN ExitFigures(e) = PatchedExit(LastRecorded(i, k), LastGood(i, k))
               ELSE e.exit_pnl = 0 /\ e.exit_price = 0

\* C23, where it fails: the per-symbol replay has emitted a MODIFIED event
\* for a reduction whose backfilled previous trade has an exit price and an
\* exit P&L, and the event carries 0 for both.
C23_Witness ==
    /\ pc = "replay_done"
    /\ request.endpoint = "symbol_lifecycle"
    /\ \E i \in SnapIds : \E e \in EventsOfType(i, K1, "MODIFIED") :
          LET x == PatchedExit(LastRecorded(i, K1), LastGood(i, K1))
          IN  /\ Reduction(e)
              /\ x[2] # 0 /\ x[3] # 0
              /\ e.exit_pnl = 0 /\ e.exit_price = 0


-----------------------------------------------------------------------------
(* Properties of the divisions in the implied-fill and exit-price formulas   *)

HelpersDone == pc \in {"diff_call", "diff_done"}

\* a result of the exact arithmetic that is a number
IsNumber(x) == x.d > 0

\* the trades the helpers were given
HelperPrev == Get(call_prev, K1, NoTrade)
HelperCurr == Get(call_curr, K1, NoTrade)

\* calculate_diff returns on the maps it is about to be called with
HasResult ==
    \E order \in Orders(DOMAIN prev_map \cup DOMAIN curr_map) :
        LET r == calculate_diff(prev_map, curr_map, historical_trades, order)
        IN  Len(r.added) + Len(r.removed) + Len(r.modified)
               = Cardinality({k \in DOMAIN prev_map \cup DOMAIN curr_map :
                                 InBoth(k) => prev_map[k].quantity # curr_map[k].quantity})

\* every price and P&L the three functions return is a number, and a
\* computation whose denominator (quantity difference, closed quantity) is
\* zero gives 0
NumbersOnly ==
    /\ HelpersDone =>
          LET dq == Get(HelperCurr, "quantity", 0) - Get(HelperPrev, "quantity", 0)
          IN  /\ IsNumber(helper.implied[3])
              /\ dq = 0 => helper.implied = <<"", 0, RZero>>
              /\ Get(HelperPrev, "quantity", 0) = 0 =>
                    helper.exit[1] = Get(HelperPrev, "booked_profit_loss", 0)
    /\ DiffDone =>
          \A i \in DOMAIN diff.modified :
              LET e == diff.modified[i]
                  closed == Abs(e.quantity - e.old_quantity)
              IN  /\ IsNumber(e.implied_fill_price) /\ IsNumber(e.exit_price)
                  /\ IsNumber(e.booked_pnl) /\ IsNumber(e.exit_pnl)
                  /\ closed = 0 => e.implied_fill_price = RZero /\ e.exit_price = RZero

\* C24: no implied-fill or exit-price computation divides by zero:
\* _compute_implied_fill, _compute_exit_metrics and calculate_diff complete
\* with a result on trades in which any field may be zero, every price and
\* P&L of the result is a number, and a computation whose denominator
\* (quantity difference, closed quantity) is zero gives 0.
C24_NoZeroDivision ==
    /\ pc = "helper_call" => ENABLED ComputeHelpers
    /\ pc = "diff_call" => HasResult
    /\ NumbersOnly

\* C24: the helpers were given two trades with the same quantity and with
\* average prices, so that the quantity difference is zero, and the implied
\* price is 0; calculate_diff then ran on the same trades
C24_Witness ==
    /\ DiffDone
    /\ IsTrade(HelperPrev) /\ IsTrade(HelperCurr)
    /\ HelperPrev.quantity = HelperCurr.quantity
    /\ HelperPrev.quantity # 0
    /\ HelperPrev.average_price # 0 /\ HelperCurr.average_price # 0
    /\ HelperPrev.average_price # HelperCurr.average_price
    /\ helper.implied[3] = RZero


\* the step reads a stored snapshot whose payload cannot be decoded
ReadsUndecodable ==
    /\ Len(snapshots') = Len(snapshots) + 1
    /\ ~Decode(snapshots'[Len(snapshots')]).ok

\* C25: both replay endpoints skip a stored snapshot whose payload cannot
\* be decoded: it emits no event and leaves the state of every key as it
\* was, so that a position open before and after it gets no EXITED/ENTERED
\* pair around it.
C25_SkipsUndecodable ==
    [][ReadsUndecodable =>
          /\ state' = state
          /\ events' = events
          /\ underlying_events' = underlying_events]_vars

\* C25, where it fails: the per-symbol replay has read an undecodable
\* snapshot between two snapshots that hold the key with the same quantity,
\* and has emitted EXITED at it and ENTERED after it.
C25_Witness ==
    /\ pc = "replay_done"
    /\ request.endpoint = "symbol_lifecycle"
    /\ \E i \in SnapIds :
          /\ i > 1 /\ i < Len(snapshots)
          /\ ~Decode(snapshots[i]).ok
          /\ Held(i - 1, K1) /\ Held(i + 1, K1)
          /\ TradeAt(i - 1, K1) = TradeAt(i + 1, K1)
          /\ TypesAt(i, K1) = {"EXITED"}
          /\ TypesAt(i + 1, K1) = {"ENTERED"}


\* C27: every ENTERED event of a replay has before_quantity = 0,
\* quantity_diff = after_quantity and after_quantity # 0, also when the key
\* is entered again after it was listed with a zero quantity following an
\* earlier good trade.
C27_EnteredFromZero ==
    ReplayRunning =>
        \A i \in SnapIds : \A k \in ReplayKeys : \A e \in EventsOfType(i, k, "ENTERED") :
            /\ e.before_quantity = 0
            /\ e.quantity_diff = e.after_quantity
            /\ e.after_quantity # 0

\* C27, where it fails: the key was held, then listed with quantity 0, then
\* held again; the ENTERED event of the re-entry carries the quantity of the
\* earlier good trade as before_quantity.
C27_Witness ==
    /\ pc = "replay_done"
    /\ \E i \in SnapIds : \E e \in EventsOfType(i, K1, "ENTERED") :
          /\ i > 2
          /\ IsTrade(TradeAt(i - 1, K1)) /\ TradeAt(i - 1, K1).quantity = 0
          /\ IsGood(TradeAt(i - 2, K1))
          /\ e.before_quantity = TradeAt(i - 2, K1).quantity
          /\ e.quantity_diff # e.after_quantity


-----------------------------------------------------------------------------
(* The replay and calculate_diff on the same pair of snapshots               *)

PairDone == pc = "pair_done"

\* key k is partly closed between the snapshot before the one of the diff
\* and that one: both list it with a quantity and an average price and
\* without broker-booked P&L, on the same side, the second with less
PartialReduction(k) ==
    /\ k \in DOMAIN call_prev /\ k \in DOMAIN call_curr
    /\ call_prev[k].average_price # 0 /\ call_curr[k].average_price # 0
    /\ call_prev[k].booked_profit_loss = 0 /\ call_curr[k].booked_profit_loss = 0
    /\ call_prev[k].quantity * call_curr[k].quantity > 0
    /\ Abs(call_curr[k].quantity) < Abs(call_prev[k].quantity)

\* C30: for a partial reduction of a key between two consecutive snapshots
\* (quantity and average price non-zero in both, no broker-booked P&L) the
\* MODIFIED event of the per-underlying replay and the modified entry of
\* calculate_diff for that pair carry the same exit_pnl.
C30_SameExitPnl ==
    PairDone =>
        \A k \in ReplayKeys :
            (Selected(k) /\ PartialReduction(k)) =>
                \A e \in EventsOfType(query.change_id, k, "MODIFIED") :
                    \A m \in EntriesOf(diff.modified, k) :
                        R(e.exit_pnl) = m.exit_pnl

\* C30, where it fails: a long position of two lots bought at 2 with last
\* price 3 is cut to one lot; the replay reports the P&L of the whole
\* earlier position at its last price, calculate_diff that of the closed lot
\* at the implied fill price.
C30_Witness ==
    /\ PairDone
    /\ Selected(K1) /\ PartialReduction(K1)
    /\ call_prev[K1].quantity = 2 /\ call_prev[K1].average_price = 2
    /\ call_prev[K1].last_price = 3
    /\ call_curr[K1].quantity = 1 /\ call_curr[K1].average_price = 2
    /\ \E e \in EventsOfType(query.change_id, K1, "MODIFIED") :
          \E m \in EntriesOf(diff.modified, K1) :
              /\ e.exit_pnl = 2
              /\ m.exit_pnl = RZero


-----------------------------------------------------------------------------
(* Properties of run_scraper, stated over the tables, the fetch and the      *)
(* snapshot the fetch was compared with                                      *)

\* the legs a payload lists, as <<symbol, product, strike, option type,
\* quantity>>, read from the payload itself
LegsOfPayload(data) ==
    {<<g, i>> : g \in DOMAIN data.data, i \in 1..MaxTrades} \cap
    UNION {{<<g, i>> : i \in DOMAIN data.data[g].trades.list} : g \in DOMAIN data.data}
LegAt(data, at) ==
    LET t == data.data[at[1]].trades.list[at[2]]
    IN  <<t.trading_symbol, t.product, t.instrument_info.dict.strike,
          t.instrument_info.dict.instrument_type, t.quantity>>
TimesListed(data, leg) == Cardinality({at \in LegsOfPayload(data) : LegAt(data, at) = leg})
LegsListed(data) == {LegAt(data, at) : at \in LegsOfPayload(data)}

\* two payloads list the same legs with the same quantities the same number
\* of times
SameStructure(a, b) ==
    \A leg \in LegsListed(a) \cup LegsListed(b) : TimesListed(a, leg) = TimesListed(b, leg)

\* the last run found a stored snapshot and fetched a payload
Compared == ~IsNull(last_snapshot) /\ ~IsNull(current_data)

\* C26: a run that compares a fetch with a stored snapshot appends one
\* snapshot row holding the fetch and one position_changes row pointing at
\* it when the two list different structures, and otherwise leaves both
\* tables as the cleanup left them; in both cases latest_snapshots holds
\* the fetch
C26_StoresOnChange ==
    [][Compared' =>
         LET cleaned == cleanup_old_data(db, now')
             id == db.sqlite_sequence.snapshots + 1
         IN  /\ db'.latest_snapshots = <<[raw_data |-> current_data', timestamp |-> now']>>
             /\ IF SameStructure(current_data', last_snapshot'.raw_data)
                THEN /\ db'.snapshots = cleaned.snapshots
                     /\ db'.position_changes = cleaned.position_changes
                ELSE /\ Len(db'.snapshots) = Len(cleaned.snapshots) + 1
                     /\ SubSeq(db'.snapshots, 1, Len(cleaned.snapshots)) = cleaned.snapshots
                     /\ db'.snapshots[Len(db'.snapshots)].id = id
                     /\ db'.snapshots[Len(db'.snapshots)].raw_data = current_data'
                     /\ Len(db'.position_changes) = Len(cleaned.position_changes) + 1
                     /\ db'.position_changes[Len(db'.position_changes)].snapshot_id = id]_vars

\* C26: a fetch that differs from the compared snapshot in a price only is
\* held by latest_snapshots and by no snapshot row
C26_Witness ==
    /\ Compared
    /\ current_data.data # last_snapshot.raw_data.data
    /\ SameStructure(current_data, last_snapshot.raw_data)
    /\ db.latest_snapshots[1].raw_data = current_data
    /\ \A r \in Rows(db.snapshots) : r.raw_data.data # current_data.data


\* the position_changes rows recorded after an initial one
ChangeRows == {r \in Rows(db.position_changes) : r.diff_summary.label # "Initial Snapshot"}
CountsSomething(summary) == \E i \in DOMAIN summary.counts : summary.counts[i] # 0

\* C28: every position_changes row recorded after the initial one has a
\* diff summary with a non-zero added, removed or modified count
C28_SummaryCountsChange == \A r \in ChangeRows : CountsSomething(r.diff_summary)

\* C28: the change test fired for the last fetch, whose snapshot the newest
\* position_changes row points at
C28_Witness ==
    /\ Compared
    /\ ~SameStructure(current_data, last_snapshot.raw_data)
    /\ \E r \in ChangeRows :
         /\ r.id = db.sqlite_sequence.position_changes
         /\ r.timestamp = now
         /\ \E s \in Rows(db.snapshots) : s.id = r.snapshot_id /\ s.raw_data = current_data

\* the stored snapshot inserted last
NewestSnapshot(tables) ==
    CHOOSE r \in Rows(tables.snapshots) : \A x \in Rows(tables.snapshots) : x.id <= r.id

\* the row api_diff takes as prev_snapshot for a change on this snapshot
PrevSnapshotOf(tables, snapshot_id) == Head(all_prev_snapshots(tables, snapshot_id))

\* C29: the snapshot a run compares its fetch with is the stored snapshot
\* inserted last, and when the run stores the fetch it is the snapshot that
\* api_diff takes as prev for the new one
C29_ComparesWithNewest ==
    [][Compared' =>
         LET cleaned == cleanup_old_data(db, now')
             stored == db'.sqlite_sequence.snapshots # db.sqlite_sequence.snapshots
         IN  /\ last_snapshot'.id = NewestSnapshot(cleaned).id
             /\ stored => PrevSnapshotOf(db', db'.sqlite_sequence.snapshots).id
                              = last_snapshot'.id]_vars

\* C29: a fetch was compared and stored while two earlier snapshots share
\* their source creation time or both lack it
C29_Witness ==
    /\ Compared
    /\ \E r \in Rows(db.snapshots) :
         /\ r.id = db.sqlite_sequence.snapshots
         /\ r.timestamp = now
         /\ r.raw_data = current_data
         /\ r.id # last_snapshot.id
         /\ \E x \in Rows(db.snapshots) :
              /\ x.id < r.id /\ x.id # last_snapshot.id
              /\ x.created_at_source = last_snapshot.created_at_source

====
